---- MODULE Spec2Model ----
(***************************************************************************)
(* The sandboxed hierarchical note store of backend/services:             *)
(* FileService (file_service.py), NoteService (note_service.py) and       *)
(* FolderService (folder_service.py), over a POSIX filesystem that holds  *)
(* directories and regular files.                                         *)
(*                                                                         *)
(* A Python str is a sequence of one-character strings, a filesystem      *)
(* location is the sequence of its path components from "/", and the      *)
(* filesystem is a record [dirs, files]: the set of directories and the   *)
(* function from regular files to their stored text.                      *)
(***************************************************************************)
EXTENDS Integers, Sequences, FiniteSets, TLC

VARIABLES dirs, files, last, running

vars == <<dirs, files, last, running>>

(***************************************************************************)
(* Bounds of the model.                                                    *)
(***************************************************************************)
\* number of directories and files the callers may have created at one time
MaxEntries == 3

\* length of the names given to _sanitize_filename
MaxNameLen == 3

\* half the number of characters the trace log may hold
MaxLines == 3

(***************************************************************************)
(* str helpers.                                                            *)
(***************************************************************************)
TXT == <<".", "t", "x", "t">>

DOTDOT == <<".", ".">>

SLASH == <<"/">>

Contains(s, sub) ==
    \E i \in 1..(Len(s) - Len(sub) + 1) : SubSeq(s, i, i + Len(sub) - 1) = sub

StartsWith(s, pre) == Len(s) >= Len(pre) /\ SubSeq(s, 1, Len(pre)) = pre

EndsWith(s, suf) ==
    Len(s) >= Len(suf) /\ SubSeq(s, Len(s) - Len(suf) + 1, Len(s)) = suf

\* str.strip(chars): drop leading and trailing characters that are in chars
RECURSIVE LStrip(_, _)
LStrip(s, chars) ==
    IF s # <<>> /\ Head(s) \in chars THEN LStrip(Tail(s), chars) ELSE s

RECURSIVE RStrip(_, _)
RStrip(s, chars) ==
    IF s # <<>> /\ s[Len(s)] \in chars
    THEN RStrip(SubSeq(s, 1, Len(s) - 1), chars) ELSE s

Strip(s, chars) == RStrip(LStrip(s, chars), chars)

Whitespace == {" ", "\t", "\n", "\r"}

\* str.replace(old, "") for a non-empty old, scanning left to right
RECURSIVE RemoveAll(_, _)
RemoveAll(s, old) ==
    IF s = <<>> THEN <<>>
    ELSE IF StartsWith(s, old) THEN RemoveAll(SubSeq(s, Len(old) + 1, Len(s)), old)
    ELSE <<Head(s)>> \o RemoveAll(Tail(s), old)

\* str.split("/")
RECURSIVE Split(_)
Split(s) ==
    IF \A i \in 1..Len(s) : s[i] # "/" THEN <<s>>
    ELSE LET i == CHOOSE k \in 1..Len(s) :
                      s[k] = "/" /\ \A j \in 1..(k - 1) : s[j] # "/"
         IN  <<SubSeq(s, 1, i - 1)>> \o Split(SubSeq(s, i + 1, Len(s)))

\* "/".join(parts)
RECURSIVE JoinSlash(_)
JoinSlash(parts) ==
    IF parts = <<>> THEN <<>>
    ELSE IF Len(parts) = 1 THEN parts[1]
    ELSE parts[1] \o SLASH \o JoinSlash(Tail(parts))

(***************************************************************************)
(* pathlib.  A Path is the sequence of its components from "/".           *)
(***************************************************************************)
\* the components PurePosixPath keeps of a str: no empty ones, no "."
PathParts(s) == SelectSeq(Split(s), LAMBDA g : g # <<>> /\ g # <<".">>)

\* base / s : an absolute s replaces base
JoinPath(base, s) ==
    IF StartsWith(s, SLASH) THEN PathParts(s) ELSE base \o PathParts(s)

\* Path.resolve() without symbolic links: ".." steps to the parent
RECURSIVE ResolveFrom(_, _)
ResolveFrom(done, rest) ==
    IF rest = <<>> THEN done
    ELSE IF Head(rest) = DOTDOT
         THEN ResolveFrom(SubSeq(done, 1, Len(done) - 1), Tail(rest))
         ELSE ResolveFrom(Append(done, Head(rest)), Tail(rest))

Resolve(p) == ResolveFrom(<<>>, p)

Parent(p) == SubSeq(p, 1, Len(p) - 1)

Name(p) == IF p = <<>> THEN <<>> ELSE p[Len(p)]

\* Path.is_relative_to(base)
IsRelativeTo(p, base) == Len(p) >= Len(base) /\ SubSeq(p, 1, Len(base)) = base

\* str(p.relative_to(base)).replace('\\', '/') for a p that is relative to base
RelStr(p, base) ==
    IF p = base THEN <<".">> ELSE JoinSlash(SubSeq(p, Len(base) + 1, Len(p)))

(***************************************************************************)
(* The notes directory (FileService.notes_dir, already resolved) and one  *)
(* file beside it, outside the sandbox.                                   *)
(***************************************************************************)
notes_dir == << <<"n">> >>

OutsideFile == << <<"s">> \o TXT >>

InRoot(p) == IsRelativeTo(p, notes_dir)

(***************************************************************************)
(* The filesystem as os, pathlib and shutil see it.  F is a record        *)
(* [dirs, files].                                                          *)
(***************************************************************************)
Exists(F, p) == p \in F.dirs \/ p \in DOMAIN F.files

IsDir(F, p) == p \in F.dirs

IsFile(F, p) == p \in DOMAIN F.files

Entries(F) == F.dirs \cup DOMAIN F.files

HasChildren(F, p) == \E q \in Entries(F) : q # <<>> /\ Parent(q) = p

SetFile(f, p, c) == [q \in (DOMAIN f) \cup {p} |-> IF q = p THEN c ELSE f[q]]

DropFiles(f, gone) == [q \in (DOMAIN f) \ gone |-> f[q]]

\* result of a library call: the filesystem after it, the exception it
\* raised ("ok" for none) and the locations it created, changed or removed
Lib(F, err, touched) == [fs |-> F, err |-> err, touched |-> touched]

\* os.mkdir(p): the errno the kernel reports
OsMkdirErr(F, p) ==
    IF Exists(F, p) THEN "FileExistsError"
    ELSE IF \E k \in 1..(Len(p) - 1) : IsFile(F, SubSeq(p, 1, k))
         THEN "NotADirectoryError"
    ELSE IF ~IsDir(F, Parent(p)) THEN "FileNotFoundError"
    ELSE "ok"

\* Path.mkdir(parents, exist_ok)
RECURSIVE PathMkdir(_, _, _, _)
PathMkdir(F, p, parents, exist_ok) ==
    LET e == OsMkdirErr(F, p) IN
    IF e = "ok"
    THEN Lib([dirs |-> F.dirs \cup {p}, files |-> F.files], "ok", {p})
    ELSE IF e = "FileNotFoundError"
    THEN IF ~parents \/ Parent(p) = p THEN Lib(F, e, {})
         ELSE LET up == PathMkdir(F, Parent(p), TRUE, TRUE) IN
              IF up.err # "ok" THEN up
              ELSE LET me == PathMkdir(up.fs, p, FALSE, exist_ok) IN
                   Lib(me.fs, me.err, up.touched \cup me.touched)
    ELSE IF ~exist_ok \/ ~IsDir(F, p) THEN Lib(F, e, {})
    ELSE Lib(F, "ok", {})

\* a relocation of the directories under src that loses the files under it
Relocate_dirs_only(F, src, dst) ==
    LET Map(p) == IF IsRelativeTo(p, src)
                  THEN dst \o SubSeq(p, Len(src) + 1, Len(p)) ELSE p
    IN  [dirs  |-> {Map(d) : d \in F.dirs},
         files |-> DropFiles(F.files, {f \in DOMAIN F.files : IsRelativeTo(f, src)})]

\* the subtree at src reappears at dst
Relocate(F, src, dst) ==
    LET Map(p) == IF IsRelativeTo(p, src)
                  THEN dst \o SubSeq(p, Len(src) + 1, Len(p)) ELSE p
    IN  [dirs  |-> {Map(d) : d \in F.dirs},
         files |-> [q \in {Map(f) : f \in DOMAIN F.files} |->
                       F.files[CHOOSE f \in DOMAIN F.files : Map(f) = q]]]

\* os.rename(src, dst) on POSIX, for an existing src
OsRename(F, src, dst) ==
    IF ~Exists(F, src) \/ ~IsDir(F, Parent(dst)) THEN Lib(F, "FileNotFoundError", {})
    ELSE IF src = dst THEN Lib(F, "ok", {src})
    ELSE IF IsFile(F, src)
    THEN IF IsDir(F, dst) THEN Lib(F, "IsADirectoryError", {})
         ELSE Lib([dirs  |-> F.dirs,
                   files |-> SetFile(DropFiles(F.files, {src}), dst, F.files[src])],
                  "ok", {src, dst})
    ELSE IF IsRelativeTo(dst, src) THEN Lib(F, "OSError", {})
    ELSE IF IsFile(F, dst) THEN Lib(F, "NotADirectoryError", {})
    ELSE IF IsDir(F, dst) /\ HasChildren(F, dst) THEN Lib(F, "OSError", {})
    ELSE Lib(Relocate(F, src, dst), "ok", {src, dst})

\* shutil._destinsrc(src, dst)
DestInSrc(src, dst) == IsRelativeTo(dst, src)

\* shutil.move(src, dst) on one volume
ShutilMove(F, src, dst) ==
    IF IsDir(F, dst) /\ src = dst THEN OsRename(F, src, dst)
    ELSE LET real_dst == IF IsDir(F, dst) THEN Append(dst, Name(src)) ELSE dst IN
         IF IsDir(F, dst) /\ Exists(F, real_dst) THEN Lib(F, "shutil.Error", {})
         ELSE LET r == OsRename(F, src, real_dst) IN
              IF r.err = "ok" THEN r
              ELSE IF IsDir(F, src) /\ DestInSrc(src, dst)
                   THEN Lib(F, "shutil.Error", {})
              ELSE r

\* a removal of p and of the entries directly in it, not of deeper ones
Rmtree_one_level(F, p) ==
    LET gone == {q \in Entries(F) : q = p \/ (q # <<>> /\ Parent(q) = p)} IN
    Lib([dirs |-> F.dirs \ gone, files |-> DropFiles(F.files, gone)], "ok", gone)

\* shutil.rmtree(p)
Rmtree(F, p) ==
    LET gone == {q \in Entries(F) : IsRelativeTo(q, p)} IN
    Lib([dirs |-> F.dirs \ gone, files |-> DropFiles(F.files, gone)], "ok", gone)

\* Path.rmdir()
Rmdir(F, p) ==
    IF HasChildren(F, p) THEN Lib(F, "OSError", {})
    ELSE Lib([dirs |-> F.dirs \ {p}, files |-> F.files], "ok", {p})

\* Path.unlink()
Unlink(F, p) ==
    IF ~Exists(F, p) THEN Lib(F, "FileNotFoundError", {})
    ELSE IF IsDir(F, p) THEN Lib(F, "IsADirectoryError", {})
    ELSE Lib([dirs |-> F.dirs, files |-> DropFiles(F.files, {p})], "ok", {p})

\* Path.write_text(content, encoding='utf-8'): text mode writes "\n" as
\* os.linesep, which is "\n" on POSIX, so the characters are stored as given
WriteText(F, p, content) ==
    IF IsDir(F, p) THEN Lib(F, "IsADirectoryError", {})
    ELSE IF ~IsDir(F, Parent(p)) THEN Lib(F, "FileNotFoundError", {})
    ELSE Lib([dirs |-> F.dirs, files |-> SetFile(F.files, p, content)], "ok", {p})

\* text mode reads with universal newlines: "\r\n" and "\r" arrive as "\n"
RECURSIVE UniversalNewlines(_)
UniversalNewlines(s) ==
    IF s = <<>> THEN <<>>
    ELSE IF Head(s) = "\r"
    THEN IF Len(s) >= 2 /\ s[2] = "\n"
         THEN <<"\n">> \o UniversalNewlines(SubSeq(s, 3, Len(s)))
         ELSE <<"\n">> \o UniversalNewlines(Tail(s))
    ELSE <<Head(s)>> \o UniversalNewlines(Tail(s))

\* Path.read_text(encoding='utf-8') of an existing regular file
ReadText(F, p) == UniversalNewlines(F.files[p])

(***************************************************************************)
(* FileService (backend/services/file_service.py).  Every method is an    *)
(* operator from the filesystem before the call to a record: the          *)
(* filesystem after it, the exception raised ("ok" for none), the value   *)
(* returned, and the locations the call probed, read, created, wrote,     *)
(* renamed, moved or removed.                                             *)
(***************************************************************************)
Out(F, res, ret, touched) == [fs |-> F, res |-> res, ret |-> ret, touched |-> touched]

\* the ten characters __sanitize_filename replaces; NUL stands for '\0'
DangerousChars == {"/", "\\", ":", "*", "?", "\"", "<", ">", "|", "NUL"}

_sanitize_filename(name) ==
    LET stripped == Strip(name, Whitespace)
        replaced == [i \in 1..Len(stripped) |->
                        IF stripped[i] \in DangerousChars THEN "-" ELSE stripped[i]]
    IN  Strip(replaced, {"."})

\* validate_path that only rejects absolute paths
validate_path_absolute_only(path) ==
    IF path = <<>> THEN TRUE
    ELSE ~(StartsWith(path, SLASH) \/ StartsWith(path, <<"\\">>))

validate_path(path) ==
    IF path = <<>> THEN TRUE
    ELSE IF Contains(path, DOTDOT) \/ StartsWith(path, SLASH)
            \/ StartsWith(path, <<"\\">>) THEN FALSE
    ELSE IF StartsWith(path, SLASH) THEN FALSE
    ELSE IsRelativeTo(Resolve(JoinPath(notes_dir, path)), notes_dir)

\* the Path __get_full_path returns when validate_path accepts relative_path
_get_full_path(relative_path) == Resolve(JoinPath(notes_dir, relative_path))

\* note_path with '.txt' appended unless it already ends with it
WithTxt(note_path) == IF EndsWith(note_path, TXT) THEN note_path ELSE note_path \o TXT

read_note(F, note_path0) ==
    LET note_path == WithTxt(note_path0)
        full_path == _get_full_path(note_path)
    IN  IF ~validate_path(note_path) THEN Out(F, "ValueError", <<>>, {})
        ELSE IF ~Exists(F, full_path) THEN Out(F, "FileNotFoundError", <<>>, {full_path})
        ELSE IF IsDir(F, full_path) THEN Out(F, "IsADirectoryError", <<>>, {full_path})
        ELSE Out(F, "ok", ReadText(F, full_path), {full_path})

write_note(F, note_path0, content) ==
    LET note_path == WithTxt(note_path0)
        full_path == _get_full_path(note_path)
    IN  IF ~validate_path(note_path) THEN Out(F, "ValueError", <<>>, {})
        ELSE LET m == PathMkdir(F, Parent(full_path), TRUE, TRUE) IN
             IF m.err # "ok" THEN Out(F, m.err, <<>>, {Parent(full_path)})
             ELSE LET w == WriteText(m.fs, full_path, content) IN
                  Out(w.fs, w.err, <<>>, m.touched \cup {full_path})

delete_note(F, note_path0) ==
    LET note_path == WithTxt(note_path0)
        full_path == _get_full_path(note_path)
    IN  IF ~validate_path(note_path) THEN Out(F, "ValueError", <<>>, {})
        ELSE IF ~Exists(F, full_path) THEN Out(F, "FileNotFoundError", <<>>, {full_path})
        ELSE LET u == Unlink(F, full_path) IN Out(u.fs, u.err, <<>>, {full_path})

rename_note(F, old_path0, new_name0) ==
    LET old_path == WithTxt(old_path0)
        new_name == _sanitize_filename(new_name0)
        full_old_path == _get_full_path(old_path)
        new_full_path == Resolve(Append(Parent(full_old_path), new_name \o TXT))
    IN  IF new_name = <<>> THEN Out(F, "ValueError", <<>>, {})
        ELSE IF ~validate_path(old_path) THEN Out(F, "ValueError", <<>>, {})
        ELSE IF ~Exists(F, full_old_path)
             THEN Out(F, "FileNotFoundError", <<>>, {full_old_path})
        ELSE IF ~IsRelativeTo(new_full_path, notes_dir)
             THEN Out(F, "ValueError", <<>>, {full_old_path})
        ELSE LET r == OsRename(F, full_old_path, new_full_path) IN
             Out(r.fs, r.err,
                 IF r.err = "ok" THEN RelStr(new_full_path, notes_dir) ELSE <<>>,
                 {full_old_path, new_full_path})

\* move_note without the check that the name is free in the target folder
move_note_no_collision_check(F, note_path0, target_folder) ==
    LET note_path == WithTxt(note_path0)
        full_note_path == _get_full_path(note_path)
        full_target_folder == _get_full_path(target_folder)
        note_name == Name(full_note_path)
        new_full_path == Resolve(Append(full_target_folder, note_name))
    IN  IF ~validate_path(note_path) THEN Out(F, "ValueError", <<>>, {})
        ELSE IF ~Exists(F, full_note_path)
             THEN Out(F, "FileNotFoundError", <<>>, {full_note_path})
        ELSE IF ~IsFile(F, full_note_path)
             THEN Out(F, "ValueError", <<>>, {full_note_path})
        ELSE IF ~validate_path(target_folder)
             THEN Out(F, "ValueError", <<>>, {full_note_path})
        ELSE IF ~Exists(F, full_target_folder)
             THEN Out(F, "FileNotFoundError", <<>>, {full_note_path, full_target_folder})
        ELSE IF ~IsDir(F, full_target_folder)
             THEN Out(F, "ValueError", <<>>, {full_note_path, full_target_folder})
        ELSE IF ~IsRelativeTo(new_full_path, notes_dir)
             THEN Out(F, "ValueError", <<>>,
                      {full_note_path, full_target_folder,
                       Append(full_target_folder, note_name)})
        ELSE LET r == ShutilMove(F, full_note_path, new_full_path) IN
             Out(r.fs, r.err,
                 IF r.err = "ok"
                 THEN RemoveAll(RelStr(new_full_path, notes_dir), TXT) ELSE <<>>,
                 {full_note_path, full_target_folder, new_full_path})

move_note(F, note_path0, target_folder) ==
    LET note_path == WithTxt(note_path0)
        full_note_path == _get_full_path(note_path)
        full_target_folder == _get_full_path(target_folder)
        note_name == Name(full_note_path)
        new_full_path == Resolve(Append(full_target_folder, note_name))
    IN  IF ~validate_path(note_path) THEN Out(F, "ValueError", <<>>, {})
        ELSE IF ~Exists(F, full_note_path)
             THEN Out(F, "FileNotFoundError", <<>>, {full_note_path})
        ELSE IF ~IsFile(F, full_note_path)
             THEN Out(F, "ValueError", <<>>, {full_note_path})
        ELSE IF ~validate_path(target_folder)
             THEN Out(F, "ValueError", <<>>, {full_note_path})
        ELSE IF ~Exists(F, full_target_folder)
             THEN Out(F, "FileNotFoundError", <<>>, {full_note_path, full_target_folder})
        ELSE IF ~IsDir(F, full_target_folder)
             THEN Out(F, "ValueError", <<>>, {full_note_path, full_target_folder})
        ELSE IF Exists(F, Append(full_target_folder, note_name))
             THEN Out(F, "FileExistsError", <<>>,
                      {full_note_path, full_target_folder,
                       Append(full_target_folder, note_name)})
        ELSE IF ~IsRelativeTo(new_full_path, notes_dir)
             THEN Out(F, "ValueError", <<>>,
                      {full_note_path, full_target_folder,
                       Append(full_target_folder, note_name)})
        ELSE LET r == ShutilMove(F, full_note_path, new_full_path) IN
             Out(r.fs, r.err,
                 IF r.err = "ok"
                 THEN RemoveAll(RelStr(new_full_path, notes_dir), TXT) ELSE <<>>,
                 {full_note_path, full_target_folder, new_full_path})

create_folder(F, folder_path) ==
    LET full_path == _get_full_path(folder_path) IN
    IF ~validate_path(folder_path) THEN Out(F, "ValueError", <<>>, {})
    ELSE IF Exists(F, full_path) THEN Out(F, "FileExistsError", <<>>, {full_path})
    ELSE LET m == PathMkdir(F, full_path, TRUE, FALSE) IN
         Out(m.fs, m.err, <<>>, m.touched \cup {full_path})

\* delete_folder that removes the tree whether or not recursive is set
delete_folder_always_recursive(F, folder_path, recursive) ==
    LET full_path == _get_full_path(folder_path) IN
    IF folder_path = <<>> THEN Out(F, "ValueError", <<>>, {})
    ELSE IF ~validate_path(folder_path) THEN Out(F, "ValueError", <<>>, {})
    ELSE IF ~Exists(F, full_path) THEN Out(F, "FileNotFoundError", <<>>, {full_path})
    ELSE IF ~IsDir(F, full_path) THEN Out(F, "ValueError", <<>>, {full_path})
    ELSE LET r == Rmtree(F, full_path) IN Out(r.fs, r.err, <<>>, r.touched)

delete_folder(F, folder_path, recursive) ==
    LET full_path == _get_full_path(folder_path) IN
    IF folder_path = <<>> THEN Out(F, "ValueError", <<>>, {})
    ELSE IF ~validate_path(folder_path) THEN Out(F, "ValueError", <<>>, {})
    ELSE IF ~Exists(F, full_path) THEN Out(F, "FileNotFoundError", <<>>, {full_path})
    ELSE IF ~IsDir(F, full_path) THEN Out(F, "ValueError", <<>>, {full_path})
    ELSE IF recursive
         THEN LET r == Rmtree(F, full_path) IN Out(r.fs, r.err, <<>>, r.touched)
         ELSE LET r == Rmdir(F, full_path) IN Out(r.fs, r.err, <<>>, {full_path})

rename_folder(F, old_path, new_name0) ==
    LET new_name == _sanitize_filename(new_name0)
        full_old_path == _get_full_path(old_path)
        new_full_path == Resolve(Append(Parent(full_old_path), new_name))
    IN  IF old_path = <<>> THEN Out(F, "ValueError", <<>>, {})
        ELSE IF new_name = <<>> THEN Out(F, "ValueError", <<>>, {})
        ELSE IF ~validate_path(old_path) THEN Out(F, "ValueError", <<>>, {})
        ELSE IF ~Exists(F, full_old_path)
             THEN Out(F, "FileNotFoundError", <<>>, {full_old_path})
        ELSE IF ~IsDir(F, full_old_path)
             THEN Out(F, "ValueError", <<>>, {full_old_path})
        ELSE IF ~IsRelativeTo(new_full_path, notes_dir)
             THEN Out(F, "ValueError", <<>>, {full_old_path})
        ELSE LET r == OsRename(F, full_old_path, new_full_path) IN
             Out(r.fs, r.err,
                 IF r.err = "ok" THEN RelStr(new_full_path, notes_dir) ELSE <<>>,
                 {full_old_path, new_full_path})

\* lines 442-448 of move_folder: the exception that leaves the inner try.
\* relative_to raises ValueError when target is not under folder; when it
\* is, the code raises ValueError("Cannot move folder into its own
\* descendant") inside the same try, and "except ValueError: pass" catches
\* either one.
descendant_check(target_resolved, folder_resolved) ==
    LET raised == IF IsRelativeTo(target_resolved, folder_resolved)
                  THEN "ValueError" ELSE "ValueError"
    IN  IF raised = "ValueError" THEN "ok" ELSE raised

\* move_folder that copies the tree to the destination and deletes the
\* source, instead of calling shutil.move
move_folder_copy_then_delete(F, folder_path, target_folder) ==
    LET full_folder_path == _get_full_path(folder_path)
        full_target_folder == _get_full_path(target_folder)
        folder_name == Name(full_folder_path)
        new_full_path == Resolve(Append(full_target_folder, folder_name))
        probed == {full_folder_path, full_target_folder}
    IN  IF folder_path = <<>> THEN Out(F, "ValueError", <<>>, {})
        ELSE IF ~validate_path(folder_path) THEN Out(F, "ValueError", <<>>, {})
        ELSE IF ~Exists(F, full_folder_path)
             THEN Out(F, "FileNotFoundError", <<>>, {full_folder_path})
        ELSE IF ~IsDir(F, full_folder_path)
             THEN Out(F, "ValueError", <<>>, {full_folder_path})
        ELSE IF ~validate_path(target_folder)
             THEN Out(F, "ValueError", <<>>, {full_folder_path})
        ELSE IF ~Exists(F, full_target_folder)
             THEN Out(F, "FileNotFoundError", <<>>, probed)
        ELSE IF ~IsDir(F, full_target_folder) THEN Out(F, "ValueError", <<>>, probed)
        ELSE IF full_target_folder = full_folder_path
             THEN Out(F, "ValueError", <<>>, probed)
        ELSE IF descendant_check(full_target_folder, full_folder_path) # "ok"
             THEN Out(F, "ValueError", <<>>, probed)
        ELSE IF Exists(F, Append(full_target_folder, folder_name))
             THEN Out(F, "FileExistsError", <<>>,
                      probed \cup {Append(full_target_folder, folder_name)})
        ELSE IF ~IsRelativeTo(new_full_path, notes_dir)
             THEN Out(F, "ValueError", <<>>,
                      probed \cup {Append(full_target_folder, folder_name)})
        ELSE LET r == Rmtree(Relocate(F, full_folder_path, new_full_path),
                             full_folder_path) IN
             Out(r.fs, r.err,
                 IF r.err = "ok" THEN RelStr(new_full_path, notes_dir) ELSE <<>>,
                 probed \cup {new_full_path})

move_folder(F, folder_path, target_folder) ==
    LET full_folder_path == _get_full_path(folder_path)
        full_target_folder == _get_full_path(target_folder)
        folder_name == Name(full_folder_path)
        new_full_path == Resolve(Append(full_target_folder, folder_name))
        probed == {full_folder_path, full_target_folder}
    IN  IF folder_path = <<>> THEN Out(F, "ValueError", <<>>, {})
        ELSE IF ~validate_path(folder_path) THEN Out(F, "ValueError", <<>>, {})
        ELSE IF ~Exists(F, full_folder_path)
             THEN Out(F, "FileNotFoundError", <<>>, {full_folder_path})
        ELSE IF ~IsDir(F, full_folder_path)
             THEN Out(F, "ValueError", <<>>, {full_folder_path})
        ELSE IF ~validate_path(target_folder)
             THEN Out(F, "ValueError", <<>>, {full_folder_path})
        ELSE IF ~Exists(F, full_target_folder)
             THEN Out(F, "FileNotFoundError", <<>>, probed)
        ELSE IF ~IsDir(F, full_target_folder) THEN Out(F, "ValueError", <<>>, probed)
        ELSE IF full_target_folder = full_folder_path
             THEN Out(F, "ValueError", <<>>, probed)
        ELSE IF descendant_check(full_target_folder, full_folder_path) # "ok"
             THEN Out(F, "ValueError", <<>>, probed)
        ELSE IF Exists(F, Append(full_target_folder, folder_name))
             THEN Out(F, "FileExistsError", <<>>,
                      probed \cup {Append(full_target_folder, folder_name)})
        ELSE IF ~IsRelativeTo(new_full_path, notes_dir)
             THEN Out(F, "ValueError", <<>>,
                      probed \cup {Append(full_target_folder, folder_name)})
        ELSE LET r == ShutilMove(F, full_folder_path, new_full_path) IN
             Out(r.fs, r.err,
                 IF r.err = "ok" THEN RelStr(new_full_path, notes_dir) ELSE <<>>,
                 probed \cup {new_full_path})

\* What rename and move do with the destination they computed, in the
\* order of the code: "exists" is the probe new_full_path.exists(),
\* "is_relative_to" the containment check against notes_dir, "rename" and
\* "move" the call that puts the entry there.  A call that fails before it
\* computes the destination does nothing with it.
rename_note_steps(F, old_path0, new_name0) ==
    LET old_path == WithTxt(old_path0)
        new_name == _sanitize_filename(new_name0)
        full_old_path == _get_full_path(old_path)
        new_full_path == Resolve(Append(Parent(full_old_path), new_name \o TXT))
    IN  IF new_name = <<>> \/ ~validate_path(old_path) THEN <<>>
        ELSE IF ~Exists(F, full_old_path) THEN <<>>
        ELSE IF ~IsRelativeTo(new_full_path, notes_dir) THEN <<"is_relative_to">>
        ELSE <<"is_relative_to", "rename">>

move_note_steps(F, note_path0, target_folder) ==
    LET note_path == WithTxt(note_path0)
        full_note_path == _get_full_path(note_path)
        full_target_folder == _get_full_path(target_folder)
        note_name == Name(full_note_path)
        new_full_path == Resolve(Append(full_target_folder, note_name))
    IN  IF ~validate_path(note_path) THEN <<>>
        ELSE IF ~Exists(F, full_note_path) \/ ~IsFile(F, full_note_path) THEN <<>>
        ELSE IF ~validate_path(target_folder) THEN <<>>
        ELSE IF ~Exists(F, full_target_folder) \/ ~IsDir(F, full_target_folder)
             THEN <<>>
        ELSE IF Exists(F, Append(full_target_folder, note_name)) THEN <<"exists">>
        ELSE IF ~IsRelativeTo(new_full_path, notes_dir)
             THEN <<"exists", "is_relative_to">>
        ELSE <<"exists", "is_relative_to", "move">>

rename_folder_steps(F, old_path, new_name0) ==
    LET new_name == _sanitize_filename(new_name0)
        full_old_path == _get_full_path(old_path)
        new_full_path == Resolve(Append(Parent(full_old_path), new_name))
    IN  IF old_path = <<>> \/ new_name = <<>> \/ ~validate_path(old_path) THEN <<>>
        ELSE IF ~Exists(F, full_old_path) \/ ~IsDir(F, full_old_path) THEN <<>>
        ELSE IF ~IsRelativeTo(new_full_path, notes_dir) THEN <<"is_relative_to">>
        ELSE <<"is_relative_to", "rename">>

move_folder_steps(F, folder_path, target_folder) ==
    LET full_folder_path == _get_full_path(folder_path)
        full_target_folder == _get_full_path(target_folder)
        folder_name == Name(full_folder_path)
        new_full_path == Resolve(Append(full_target_folder, folder_name))
    IN  IF folder_path = <<>> \/ ~validate_path(folder_path) THEN <<>>
        ELSE IF ~Exists(F, full_folder_path) \/ ~IsDir(F, full_folder_path) THEN <<>>
        ELSE IF ~validate_path(target_folder) THEN <<>>
        ELSE IF ~Exists(F, full_target_folder) \/ ~IsDir(F, full_target_folder)
             THEN <<>>
        ELSE IF full_target_folder = full_folder_path THEN <<>>
        ELSE IF descendant_check(full_target_folder, full_folder_path) # "ok" THEN <<>>
        ELSE IF Exists(F, Append(full_target_folder, folder_name)) THEN <<"exists">>
        ELSE IF ~IsRelativeTo(new_full_path, notes_dir)
             THEN <<"exists", "is_relative_to">>
        ELSE <<"exists", "is_relative_to", "move">>

note_exists(F, note_path0) ==
    LET note_path == WithTxt(note_path0)
        full_path == _get_full_path(note_path)
    IN  IF ~validate_path(note_path) THEN FALSE
        ELSE Exists(F, full_path) /\ IsFile(F, full_path)

folder_exists(F, folder_path) ==
    LET full_path == _get_full_path(folder_path) IN
    IF ~validate_path(folder_path) THEN FALSE
    ELSE Exists(F, full_path) /\ IsDir(F, full_path)

(***************************************************************************)
(* Listings and the folder tree.  A note dictionary is the record of its  *)
(* path, name and file_type; timestamps and size are left out, and a list *)
(* of notes, which the code orders by modification time, is the set of    *)
(* its members.                                                            *)
(***************************************************************************)
\* code points of the characters that occur in names
Ord(c) ==
    CASE c = " " -> 32 [] c = "-" -> 45 [] c = "." -> 46 [] c = "B" -> 66
      [] c = "a" -> 97 [] c = "b" -> 98 [] c = "d" -> 100 [] c = "h" -> 104
      [] c = "k" -> 107 [] c = "m" -> 109 [] c = "n" -> 110 [] c = "s" -> 115
      [] c = "t" -> 116 [] c = "x" -> 120 [] OTHER -> 0

\* str < str: by code point, a proper prefix first
RECURSIVE StrLess(_, _)
StrLess(a, b) ==
    IF b = <<>> THEN FALSE
    ELSE IF a = <<>> THEN TRUE
    ELSE IF Head(a) # Head(b) THEN Ord(Head(a)) < Ord(Head(b))
    ELSE StrLess(Tail(a), Tail(b))

\* str.lower()
Lower(s) == [i \in 1..Len(s) |-> IF s[i] = "B" THEN "b" ELSE s[i]]

\* position of the last "." of a name when it starts a suffix, else 0
SuffixStart(name) ==
    LET dots == {i \in 1..Len(name) : name[i] = "."}
        i == IF dots = {} THEN 0 ELSE CHOOSE k \in dots : \A j \in dots : j <= k
    IN  IF 1 < i /\ i < Len(name) THEN i ELSE 0

\* PurePath.suffix
Suffix(name) ==
    IF SuffixStart(name) = 0 THEN <<>> ELSE SubSeq(name, SuffixStart(name), Len(name))

\* PurePath.stem
Stem(name) ==
    IF SuffixStart(name) = 0 THEN name ELSE SubSeq(name, 1, SuffixStart(name) - 1)

\* Note.from_file(file_path, notes_dir).to_dict(include_content=False)
Note_from_file(file_path) ==
    [path      |-> JoinSlash(SubSeq(file_path, Len(notes_dir) + 1, Len(file_path))),
     name      |-> Stem(Name(file_path)),
     file_type |-> IF Lower(Suffix(Name(file_path))) = <<".", "m", "d">>
                   THEN <<"m", "d">> ELSE <<"t", "x", "t">>]

\* path.glob('*.txt') filtered by is_file()
GlobTxtFiles(F, path) ==
    {p \in DOMAIN F.files : p # <<>> /\ Parent(p) = path /\ EndsWith(Name(p), TXT)}

\* path.iterdir()
Iterdir(F, path) == {p \in Entries(F) : p # <<>> /\ Parent(p) = path}

\* sorted(paths) for entries of one directory
RECURSIVE SortedPaths(_)
SortedPaths(S) ==
    IF S = {} THEN <<>>
    ELSE LET m == CHOOSE x \in S : \A y \in S \ {x} : StrLess(Name(x), Name(y))
         IN  <<m>> \o SortedPaths(S \ {m})

\* the entries of a directory the tree descends into, whatever they are named
Subfolder_hidden_too(F, subfolder) == IsDir(F, subfolder)

\* the entries of a directory the tree descends into
Subfolder(F, subfolder) ==
    IsDir(F, subfolder) /\ ~StartsWith(Name(subfolder), <<".">>)

\* list_notes that makes the folder when it is missing
list_notes_making_folder(F, folder_path) ==
    LET full_path == _get_full_path(folder_path) IN
    IF ~validate_path(folder_path) THEN Out(F, "ValueError", <<>>, {})
    ELSE IF ~Exists(F, full_path)
         THEN LET m == PathMkdir(F, full_path, TRUE, TRUE) IN
              Out(m.fs, m.err, {}, m.touched \cup {full_path})
    ELSE IF ~IsDir(F, full_path) THEN Out(F, "ValueError", <<>>, {full_path})
    ELSE Out(F, "ok", {Note_from_file(p) : p \in GlobTxtFiles(F, full_path)},
             {full_path} \cup Iterdir(F, full_path))

list_notes(F, folder_path) ==
    LET full_path == _get_full_path(folder_path) IN
    IF ~validate_path(folder_path) THEN Out(F, "ValueError", <<>>, {})
    ELSE IF ~Exists(F, full_path) THEN Out(F, "FileNotFoundError", <<>>, {full_path})
    ELSE IF ~IsDir(F, full_path) THEN Out(F, "ValueError", <<>>, {full_path})
    ELSE Out(F, "ok", {Note_from_file(p) : p \in GlobTxtFiles(F, full_path)},
             {full_path} \cup Iterdir(F, full_path))

list_all_notes(F) ==
    LET under == {p \in Entries(F) : IsRelativeTo(p, notes_dir)} IN
    Out(F, "ok",
        {Note_from_file(p) : p \in {q \in under : IsFile(F, q) /\ EndsWith(Name(q), TXT)}},
        {notes_dir} \cup under)

RECURSIVE _build_folder_tree(_, _)
_build_folder_tree(F, path) ==
    LET rel      == RelStr(path, notes_dir)
        rel_path == IF rel = <<".">> THEN <<>> ELSE rel
        name     == IF path # notes_dir THEN Name(path) ELSE <<"r", "o", "o", "t">>
        notes    == {Note_from_file(p) : p \in GlobTxtFiles(F, path)}
        subs     == SelectSeq(SortedPaths(Iterdir(F, path)),
                              LAMBDA subfolder : Subfolder(F, subfolder))
    IN  [path     |-> rel_path,
         name     |-> name,
         children |-> [i \in 1..Len(subs) |-> _build_folder_tree(F, subs[i])],
         notes    |-> notes]

\* the directories _build_folder_tree(path) lists
RECURSIVE Visited(_, _)
Visited(F, path) ==
    {path} \cup Iterdir(F, path)
    \cup UNION {Visited(F, d) : d \in {q \in Iterdir(F, path) : Subfolder(F, q)}}

get_folder_tree(F, folder_path) ==
    LET full_path == _get_full_path(folder_path) IN
    IF ~validate_path(folder_path) THEN Out(F, "ValueError", <<>>, {})
    ELSE IF ~Exists(F, full_path) THEN Out(F, "FileNotFoundError", <<>>, {full_path})
    ELSE IF ~IsDir(F, full_path) THEN Out(F, "ValueError", <<>>, {full_path})
    ELSE Out(F, "ok", _build_folder_tree(F, full_path), Visited(F, full_path))

(***************************************************************************)
(* NoteService (backend/services/note_service.py) and FolderService       *)
(* (backend/services/folder_service.py).                                  *)
(***************************************************************************)
\* get_note, line 28: FileService defines no _resolve_note_path (and no
\* SUPPORTED_EXTENSIONS), so the attribute lookup raises AttributeError
\* before the filesystem is looked at
get_note(F, note_path) == Out(F, "AttributeError", <<>>, {})

FileTypes == {<<"t", "x", "t">>, <<"m", "d">>}

create_note(F, folder_path, name0, content, file_type) ==
    LET name == _sanitize_filename(name0)
        extension == <<".">> \o file_type
        note_path == IF folder_path # <<>>
                     THEN folder_path \o SLASH \o name \o extension
                     ELSE name \o extension
    IN  IF file_type \notin FileTypes THEN Out(F, "ValueError", <<>>, {})
        ELSE IF name = <<>> THEN Out(F, "ValueError", <<>>, {})
        ELSE IF note_exists(F, note_path)
             THEN Out(F, "FileExistsError", <<>>, {_get_full_path(WithTxt(note_path))})
        ELSE LET w == write_note(F, note_path, content) IN
             IF w.res # "ok" THEN w
             ELSE LET g == get_note(w.fs, SubSeq(note_path, 1,
                                                 Len(note_path) - Len(extension)))
                  IN  Out(g.fs, g.res, g.ret, w.touched \cup g.touched)

\* update_note that writes without asking whether the note exists
update_note_without_exists_check(F, note_path, content) ==
    LET w == write_note(F, note_path, content) IN
    IF w.res # "ok" THEN w
    ELSE LET g == get_note(w.fs, note_path) IN
         Out(g.fs, g.res, g.ret, w.touched \cup g.touched)

update_note(F, note_path, content) ==
    IF ~note_exists(F, note_path) THEN Out(F, "FileNotFoundError", <<>>, {})
    ELSE LET w == write_note(F, note_path, content) IN
         IF w.res # "ok" THEN w
         ELSE LET g == get_note(w.fs, note_path) IN
              Out(g.fs, g.res, g.ret, w.touched \cup g.touched)

\* NoteService.rename_note: line 181 reads file_service.SUPPORTED_EXTENSIONS
NoteService_rename_note(F, note_path, new_name) ==
    LET r == rename_note(F, note_path, new_name) IN
    IF r.res # "ok" THEN r ELSE Out(r.fs, "AttributeError", <<>>, r.touched)

NoteService_move_note(F, note_path, target_folder) ==
    LET r == move_note(F, note_path, target_folder) IN
    IF r.res # "ok" THEN r
    ELSE LET g == get_note(r.fs, r.ret) IN
         Out(g.fs, g.res, g.ret, r.touched \cup g.touched)

FolderService_create_folder(F, parent_path, name0) ==
    LET name == _sanitize_filename(name0)
        folder_path == IF parent_path # <<>>
                       THEN parent_path \o SLASH \o name ELSE name
    IN  IF name = <<>> THEN Out(F, "ValueError", <<>>, {})
        ELSE LET c == create_folder(F, folder_path) IN
             Out(c.fs, c.res, IF c.res = "ok" THEN folder_path ELSE <<>>, c.touched)

\* FolderService.rename_folder: the dictionary it returns carries the path
\* FileService.rename_folder returned and the new_name it was given
FolderService_rename_folder(F, folder_path, new_name) ==
    LET r == rename_folder(F, folder_path, new_name) IN
    Out(r.fs, r.res,
        IF r.res = "ok"
        THEN [old_path |-> folder_path, new_path |-> r.ret, name |-> new_name]
        ELSE <<>>,
        r.touched)

(***************************************************************************)
(* Arguments the callers supply.                                          *)
(***************************************************************************)
\* relative paths: root, a top-level entry, a nested one, the root's alias
\* ".", a traversal towards the file beside the root, an absolute path
PathArgs ==
    { <<>>, <<"a">>, <<"a", "/", "b">>, <<".">>,
      <<".", ".", "/", "s">>, <<"/", "a">> }

\* target folders of a move
TargetArgs ==
    { <<>>, <<"a">>, <<"a", "/", "b">>, <<".", ".", "/", "s">>, <<"/", "a">> }

\* folders in which NoteService creates notes
FolderArgs == { <<>>, <<"a">>, <<".", ".", "/", "s">> }

\* note paths handed to the NoteService wrappers of rename and move
ServiceArgs == { <<"a">>, <<".", ".", "/", "s">> }

NameArgs == { <<"a">>, <<"b">>, <<".", ".">> }

Contents == { <<"x">>, <<"y", "\r">> }

\* folders that are listed: root, a folder, a hidden folder, a traversal
TreeArgs == { <<>>, <<"a">>, <<".", "h">>, <<".", ".", "/", "s">> }

(***************************************************************************)
(* The state machine: one action per operation of the store.              *)
(***************************************************************************)
FS == [dirs |-> dirs, files |-> files]

WithinBounds(F) ==
    Cardinality(Entries(F) \ {<<>>, notes_dir, OutsideFile}) <= MaxEntries

Call(op, path, arg, content, flag) ==
    [op |-> op, path |-> path, arg |-> arg, content |-> content, flag |-> flag]

\* the store holds no state between calls: a call is taken while no result
\* is outstanding, and runs to completion in one step
Idle == Call("idle", <<>>, <<>>, <<>>, FALSE)

Ready(out) == last.call = Idle /\ WithinBounds(out.fs)

Done(call, out) ==
    [call |-> call, res |-> out.res, ret |-> out.ret, touched |-> out.touched]

\* the callers whose requests the server handles at the same time, one
\* thread each
Callers == {1, 2}

\* a caller's request: the call, how far it has run ("none", "checked",
\* "done", and the steps between for a folder), its outcome, and whether it
\* passed its checks while another caller's create of the same entry was
\* between its check and its end; for get_folder_tree the folders whose
\* _build_folder_tree call is still to come, those already listed, in
\* order, and the directories there were when the call began
NotRunning ==
    [call |-> Idle, pc |-> "none", res |-> "ok", raced |-> FALSE,
     todo |-> <<>>, visits |-> <<>>, began |-> {}]

Init ==
    /\ dirs = {<<>>, notes_dir}
    /\ files = [p \in {OutsideFile} |-> <<"k">>]
    /\ last = [call |-> Idle, res |-> "ok", ret |-> <<>>, touched |-> {}]
    /\ running = [c \in Callers |-> NotRunning]

ReadNote ==
    \E p \in PathArgs :
        LET out == read_note(FS, p) IN
        /\ Ready(out)
        /\ UNCHANGED running
        /\ dirs' = out.fs.dirs
        /\ files' = out.fs.files
        /\ last' = Done(Call("read_note", p, <<>>, <<>>, FALSE), out)

WriteNote ==
    \E p \in PathArgs, c \in Contents :
        LET out == write_note(FS, p, c) IN
        /\ Ready(out)
        /\ UNCHANGED running
        /\ dirs' = out.fs.dirs
        /\ files' = out.fs.files
        /\ last' = Done(Call("write_note", p, <<>>, c, FALSE), out)

DeleteNote ==
    \E p \in PathArgs :
        LET out == delete_note(FS, p) IN
        /\ Ready(out)
        /\ UNCHANGED running
        /\ dirs' = out.fs.dirs
        /\ files' = out.fs.files
        /\ last' = Done(Call("delete_note", p, <<>>, <<>>, FALSE), out)

RenameNote ==
    \E p \in PathArgs, n \in NameArgs :
        LET out == rename_note(FS, p, n) IN
        /\ Ready(out)
        /\ UNCHANGED running
        /\ dirs' = out.fs.dirs
        /\ files' = out.fs.files
        /\ last' = Done(Call("rename_note", p, n, <<>>, FALSE), out)

MoveNote ==
    \E p \in PathArgs, t \in TargetArgs :
        LET out == move_note(FS, p, t) IN
        /\ Ready(out)
        /\ UNCHANGED running
        /\ dirs' = out.fs.dirs
        /\ files' = out.fs.files
        /\ last' = Done(Call("move_note", p, t, <<>>, FALSE), out)

CreateFolder ==
    \E p \in PathArgs, n \in NameArgs :
        LET out == FolderService_create_folder(FS, p, n) IN
        /\ Ready(out)
        /\ UNCHANGED running
        /\ dirs' = out.fs.dirs
        /\ files' = out.fs.files
        /\ last' = Done(Call("create_folder", p, n, <<>>, FALSE), out)

DeleteFolder ==
    \E p \in PathArgs, r \in BOOLEAN :
        LET out == delete_folder(FS, p, r) IN
        /\ Ready(out)
        /\ UNCHANGED running
        /\ dirs' = out.fs.dirs
        /\ files' = out.fs.files
        /\ last' = Done(Call("delete_folder", p, <<>>, <<>>, r), out)

RenameFolder ==
    \E p \in PathArgs, n \in NameArgs :
        LET out == rename_folder(FS, p, n) IN
        /\ Ready(out)
        /\ UNCHANGED running
        /\ dirs' = out.fs.dirs
        /\ files' = out.fs.files
        /\ last' = Done(Call("rename_folder", p, n, <<>>, FALSE), out)

MoveFolder ==
    \E p \in PathArgs, t \in TargetArgs :
        LET out == move_folder(FS, p, t) IN
        /\ Ready(out)
        /\ UNCHANGED running
        /\ dirs' = out.fs.dirs
        /\ files' = out.fs.files
        /\ last' = Done(Call("move_folder", p, t, <<>>, FALSE), out)

GetNote ==
    \E p \in ServiceArgs :
        LET out == get_note(FS, p) IN
        /\ Ready(out)
        /\ UNCHANGED running
        /\ dirs' = out.fs.dirs
        /\ files' = out.fs.files
        /\ last' = Done(Call("get_note", p, <<>>, <<>>, FALSE), out)

CreateNote ==
    \E f \in FolderArgs, n \in NameArgs, c \in Contents, t \in FileTypes :
        LET out == create_note(FS, f, n, c, t) IN
        /\ Ready(out)
        /\ UNCHANGED running
        /\ dirs' = out.fs.dirs
        /\ files' = out.fs.files
        /\ last' = Done(Call("create_note", f, n, c, t = <<"m", "d">>), out)

UpdateNote ==
    \E p \in PathArgs, c \in Contents :
        LET out == update_note(FS, p, c) IN
        /\ Ready(out)
        /\ UNCHANGED running
        /\ dirs' = out.fs.dirs
        /\ files' = out.fs.files
        /\ last' = Done(Call("update_note", p, <<>>, c, FALSE), out)

NoteServiceRenameNote ==
    \E p \in ServiceArgs, n \in NameArgs :
        LET out == NoteService_rename_note(FS, p, n) IN
        /\ Ready(out)
        /\ UNCHANGED running
        /\ dirs' = out.fs.dirs
        /\ files' = out.fs.files
        /\ last' = Done(Call("NoteService.rename_note", p, n, <<>>, FALSE), out)

NoteServiceMoveNote ==
    \E p \in ServiceArgs, t \in FolderArgs :
        LET out == NoteService_move_note(FS, p, t) IN
        /\ Ready(out)
        /\ UNCHANGED running
        /\ dirs' = out.fs.dirs
        /\ files' = out.fs.files
        /\ last' = Done(Call("NoteService.move_note", p, t, <<>>, FALSE), out)

ListNotes ==
    \E p \in TreeArgs :
        LET out == list_notes(FS, p) IN
        /\ Ready(out)
        /\ UNCHANGED running
        /\ dirs' = out.fs.dirs
        /\ files' = out.fs.files
        /\ last' = Done(Call("list_notes", p, <<>>, <<>>, FALSE), out)

ListAllNotes ==
    LET out == list_all_notes(FS) IN
    /\ Ready(out)
    /\ UNCHANGED running
    /\ dirs' = out.fs.dirs
    /\ files' = out.fs.files
    /\ last' = Done(Call("list_all_notes", <<>>, <<>>, <<>>, FALSE), out)

GetFolderTree ==
    \E p \in TreeArgs :
        LET out == get_folder_tree(FS, p) IN
        /\ Ready(out)
        /\ UNCHANGED running
        /\ dirs' = out.fs.dirs
        /\ files' = out.fs.files
        /\ last' = Done(Call("get_folder_tree", p, <<>>, <<>>, FALSE), out)

\* the caller has the result of the call
Return ==
    /\ last.call # Idle
    /\ last' = [call |-> Idle, res |-> "ok", ret |-> <<>>, touched |-> {}]
    /\ UNCHANGED <<dirs, files, running>>

Next ==
    \/ Return
    \/ ReadNote
    \/ WriteNote
    \/ DeleteNote
    \/ RenameNote
    \/ MoveNote
    \/ CreateFolder
    \/ DeleteFolder
    \/ RenameFolder
    \/ MoveFolder
    \/ GetNote
    \/ CreateNote
    \/ UpdateNote
    \/ NoteServiceRenameNote
    \/ NoteServiceMoveNote
    \/ ListNotes
    \/ ListAllNotes
    \/ GetFolderTree

Spec == Init /\ [][Next]_vars

(***************************************************************************)
(* _sanitize_filename on its own, applied to every short name over a dot, *)
(* a blank, a letter and two of the characters it replaces.               *)
(***************************************************************************)
NameChars == {".", " ", "a", "/", "*"}

SanitizeInputs == UNION {[1..k -> NameChars] : k \in 0..MaxNameLen}

Sanitize ==
    \E n \in SanitizeInputs :
        /\ last.call = Idle
        /\ last' = Done(Call("_sanitize_filename", <<>>, n, <<>>, FALSE),
                        Out(FS, "ok", _sanitize_filename(n), {}))
        /\ UNCHANGED <<dirs, files, running>>

NextSanitize ==
    \/ Return
    \/ Sanitize

SpecSanitize == Init /\ [][NextSanitize]_vars

(***************************************************************************)
(* The views over a notes directory that also holds hidden folders and    *)
(* names in both cases: folders and notes are made with                   *)
(* FileService.create_folder and FileService.write_note, then listed.     *)
(***************************************************************************)
ViewFolderPaths ==
    { <<"a">>, <<"B">>, <<".", "h">>, <<"a", "/", ".", "h">>, <<"a", "/", "b">> }

ViewNotePaths == { <<"a">>, <<"a", "/", "b">>, <<".", "h", "/", "a">> }

MakeFolder ==
    \E p \in ViewFolderPaths :
        LET out == create_folder(FS, p) IN
        /\ Ready(out)
        /\ UNCHANGED running
        /\ dirs' = out.fs.dirs
        /\ files' = out.fs.files
        /\ last' = Done(Call("FileService.create_folder", p, <<>>, <<>>, FALSE), out)

MakeNote ==
    \E p \in ViewNotePaths :
        LET out == write_note(FS, p, <<"x">>) IN
        /\ Ready(out)
        /\ UNCHANGED running
        /\ dirs' = out.fs.dirs
        /\ files' = out.fs.files
        /\ last' = Done(Call("write_note", p, <<>>, <<"x">>, FALSE), out)

NextView ==
    \/ Return
    \/ MakeFolder
    \/ MakeNote
    \/ ListNotes
    \/ ListAllNotes
    \/ GetFolderTree

SpecView == Init /\ [][NextView]_vars

(***************************************************************************)
(* Names.  Folders and notes are created, renamed and moved under names   *)
(* that hold the text ".txt", two dots in their middle, or blanks around  *)
(* them.                                                                   *)
(***************************************************************************)
EntryNames ==
    { <<"a">>, <<"c", ".", "t", "x", "t">>, <<"a", ".", ".", "b">>, <<" ", "b", " ">> }

EntryFolders == { <<"a">>, <<"b">>, <<"c", ".", "t", "x", "t">> }

EntryNotes == { <<"b">>, <<"a", "/", "b">> }

NameFolder ==
    \E n \in EntryNames :
        LET out == FolderService_create_folder(FS, <<>>, n) IN
        /\ Ready(out)
        /\ UNCHANGED running
        /\ dirs' = out.fs.dirs
        /\ files' = out.fs.files
        /\ last' = Done(Call("FolderService.create_folder", <<>>, n, <<>>, FALSE), out)

NameNote ==
    \E p \in EntryNotes :
        LET out == write_note(FS, p, <<"x">>) IN
        /\ Ready(out)
        /\ UNCHANGED running
        /\ dirs' = out.fs.dirs
        /\ files' = out.fs.files
        /\ last' = Done(Call("write_note", p, <<>>, <<"x">>, FALSE), out)

RenameNamedFolder ==
    \E p \in EntryFolders, n \in EntryNames :
        LET out == FolderService_rename_folder(FS, p, n) IN
        /\ Ready(out)
        /\ UNCHANGED running
        /\ dirs' = out.fs.dirs
        /\ files' = out.fs.files
        /\ last' = Done(Call("FolderService.rename_folder", p, n, <<>>, FALSE), out)

RenameNamedNote ==
    \E p \in EntryNotes, n \in EntryNames :
        LET out == rename_note(FS, p, n) IN
        /\ Ready(out)
        /\ UNCHANGED running
        /\ dirs' = out.fs.dirs
        /\ files' = out.fs.files
        /\ last' = Done(Call("rename_note", p, n, <<>>, FALSE), out)

MoveNamedNote ==
    \E p \in EntryNotes, t \in EntryFolders :
        LET out == move_note(FS, p, t) IN
        /\ Ready(out)
        /\ UNCHANGED running
        /\ dirs' = out.fs.dirs
        /\ files' = out.fs.files
        /\ last' = Done(Call("move_note", p, t, <<>>, FALSE), out)

NextNames ==
    \/ Return
    \/ NameFolder
    \/ NameNote
    \/ RenameNamedFolder
    \/ RenameNamedNote
    \/ MoveNamedNote

SpecNames == Init /\ [][NextNames]_vars

(***************************************************************************)
(* Concurrent callers.  The server handles each request on a thread of    *)
(* its own and the services take no lock, so the calls of two callers     *)
(* interleave between the test a method makes and the filesystem call     *)
(* that follows it.  Each call is two steps: its checks, then the rest.   *)
(***************************************************************************)
NotePathOf(folder_path, name0, file_type) ==
    LET name == _sanitize_filename(name0)
        extension == <<".">> \o file_type
    IN  IF folder_path # <<>>
        THEN folder_path \o SLASH \o name \o extension
        ELSE name \o extension

\* NoteService.create_note up to and including its note_exists test
create_note_checks(F, folder_path, name0, file_type) ==
    IF file_type \notin FileTypes THEN "ValueError"
    ELSE IF _sanitize_filename(name0) = <<>> THEN "ValueError"
    ELSE IF note_exists(F, NotePathOf(folder_path, name0, file_type))
         THEN "FileExistsError"
    ELSE "ok"

\* NoteService.create_note from write_note on
create_note_writes(F, folder_path, name0, content, file_type) ==
    LET note_path == NotePathOf(folder_path, name0, file_type)
        w == write_note(F, note_path, content)
    IN  IF w.res # "ok" THEN w
        ELSE LET g == get_note(w.fs, SubSeq(note_path, 1,
                                            Len(note_path) - Len(file_type) - 1))
             IN  Out(g.fs, g.res, g.ret, w.touched \cup g.touched)

\* NoteService.update_note: its note_exists test
update_note_checks(F, note_path) ==
    IF ~note_exists(F, note_path) THEN "FileNotFoundError" ELSE "ok"

\* NoteService.update_note from write_note on
update_note_writes(F, note_path, content) ==
    LET w == write_note(F, note_path, content) IN
    IF w.res # "ok" THEN w
    ELSE LET g == get_note(w.fs, note_path) IN
         Out(g.fs, g.res, g.ret, w.touched \cup g.touched)

\* FileService.delete_note up to and including its exists() test
delete_note_checks(F, note_path0) ==
    IF ~validate_path(WithTxt(note_path0)) THEN "ValueError"
    ELSE IF ~Exists(F, _get_full_path(WithTxt(note_path0))) THEN "FileNotFoundError"
    ELSE "ok"

\* FileService.delete_note: full_path.unlink()
delete_note_unlinks(F, note_path0) ==
    LET full_path == _get_full_path(WithTxt(note_path0))
        u == Unlink(F, full_path)
    IN  Out(u.fs, u.err, <<>>, {full_path})

\* FileService.rename_note up to the rename
rename_note_checks(F, old_path0, new_name0) ==
    LET old_path == WithTxt(old_path0)
        new_name == _sanitize_filename(new_name0)
        full_old_path == _get_full_path(old_path)
        new_full_path == Resolve(Append(Parent(full_old_path), new_name \o TXT))
    IN  IF new_name = <<>> THEN "ValueError"
        ELSE IF ~validate_path(old_path) THEN "ValueError"
        ELSE IF ~Exists(F, full_old_path) THEN "FileNotFoundError"
        ELSE IF ~IsRelativeTo(new_full_path, notes_dir) THEN "ValueError"
        ELSE "ok"

\* FileService.rename_note: full_old_path.rename(new_full_path)
rename_note_renames(F, old_path0, new_name0) ==
    LET full_old_path == _get_full_path(WithTxt(old_path0))
        new_full_path == Resolve(Append(Parent(full_old_path),
                                        _sanitize_filename(new_name0) \o TXT))
        r == OsRename(F, full_old_path, new_full_path)
    IN  Out(r.fs, r.err,
            IF r.err = "ok" THEN RelStr(new_full_path, notes_dir) ELSE <<>>,
            {full_old_path, new_full_path})

\* the note the concurrent callers work on, and the name they rename it to
ConcNotes == { <<"a">> }

ConcNewNames == { <<"b">> }

TypeOf(call) == IF call.flag THEN <<"m", "d">> ELSE <<"t", "x", "t">>

\* caller c starts a call whose checks gave chk
Started(c, call, chk) ==
    [call  |-> call,
     pc    |-> IF chk = "ok" THEN "checked" ELSE "done",
     res   |-> chk,
     raced |-> /\ call.op \in {"create_note", "create_folder"}
               /\ chk = "ok"
               /\ \E d \in Callers \ {c} :
                      /\ running[d].pc \notin {"none", "done"}
                      /\ running[d].call.op = call.op
                      /\ running[d].call.path = call.path
                      /\ running[d].call.arg = call.arg
                      /\ running[d].call.flag = call.flag,
     todo  |-> <<>>,
     visits |-> <<>>,
     began |-> {}]

\* caller c's call ends with the outcome out
Finished(c, out) ==
    /\ WithinBounds(out.fs)
    /\ dirs' = out.fs.dirs
    /\ files' = out.fs.files
    /\ running' = [running EXCEPT ![c].pc = "done", ![c].res = out.res]
    /\ UNCHANGED last

CreateNoteChecks ==
    \E c \in Callers, n \in ConcNotes, x \in Contents, t \in FileTypes :
        /\ running[c].pc = "none"
        /\ running' = [running EXCEPT ![c] =
               Started(c, Call("create_note", <<>>, n, x, t = <<"m", "d">>),
                       create_note_checks(FS, <<>>, n, t))]
        /\ UNCHANGED <<dirs, files, last>>

CreateNoteWrites ==
    \E c \in Callers :
        /\ running[c].pc = "checked"
        /\ running[c].call.op = "create_note"
        /\ Finished(c, create_note_writes(FS, running[c].call.path, running[c].call.arg,
                                          running[c].call.content, TypeOf(running[c].call)))

UpdateNoteChecks ==
    \E c \in Callers, p \in ConcNotes, x \in Contents :
        /\ running[c].pc = "none"
        /\ running' = [running EXCEPT ![c] =
               Started(c, Call("update_note", p, <<>>, x, FALSE),
                       update_note_checks(FS, p))]
        /\ UNCHANGED <<dirs, files, last>>

UpdateNoteWrites ==
    \E c \in Callers :
        /\ running[c].pc = "checked"
        /\ running[c].call.op = "update_note"
        /\ Finished(c, update_note_writes(FS, running[c].call.path,
                                          running[c].call.content))

DeleteNoteChecks ==
    \E c \in Callers, p \in ConcNotes :
        /\ running[c].pc = "none"
        /\ running' = [running EXCEPT ![c] =
               Started(c, Call("delete_note", p, <<>>, <<>>, FALSE),
                       delete_note_checks(FS, p))]
        /\ UNCHANGED <<dirs, files, last>>

DeleteNoteUnlinks ==
    \E c \in Callers :
        /\ running[c].pc = "checked"
        /\ running[c].call.op = "delete_note"
        /\ Finished(c, delete_note_unlinks(FS, running[c].call.path))

RenameNoteChecks ==
    \E c \in Callers, p \in ConcNotes, n \in ConcNewNames :
        /\ running[c].pc = "none"
        /\ running' = [running EXCEPT ![c] =
               Started(c, Call("rename_note", p, n, <<>>, FALSE),
                       rename_note_checks(FS, p, n))]
        /\ UNCHANGED <<dirs, files, last>>

RenameNoteRenames ==
    \E c \in Callers :
        /\ running[c].pc = "checked"
        /\ running[c].call.op = "rename_note"
        /\ Finished(c, rename_note_renames(FS, running[c].call.path, running[c].call.arg))

\* caller c has the result of its call
CallerReturns ==
    \E c \in Callers :
        /\ running[c].pc = "done"
        /\ running' = [running EXCEPT ![c] = NotRunning]
        /\ UNCHANGED <<dirs, files, last>>

NextConcurrent ==
    \/ CreateNoteChecks
    \/ CreateNoteWrites
    \/ UpdateNoteChecks
    \/ UpdateNoteWrites
    \/ DeleteNoteChecks
    \/ DeleteNoteUnlinks
    \/ RenameNoteChecks
    \/ RenameNoteRenames
    \/ CallerReturns

SpecConcurrent == Init /\ [][NextConcurrent]_vars

(***************************************************************************)
(* Folders under concurrent callers.  FileService.create_folder tests     *)
(* that the path is free and then calls Path.mkdir(parents=True,          *)
(* exist_ok=False), which is os.mkdir of the path, and when a parent is   *)
(* missing the parents with exist_ok=True followed by os.mkdir of the     *)
(* path again; each os.mkdir is one call to the kernel.                   *)
(* get_folder_tree lists one folder per call of _build_folder_tree; other *)
(* callers' steps fall between those calls.                               *)
(***************************************************************************)
\* create_folder up to and including its exists() test
create_folder_checks(F, folder_path) ==
    IF ~validate_path(folder_path) THEN "ValueError"
    ELSE IF Exists(F, _get_full_path(folder_path)) THEN "FileExistsError"
    ELSE "ok"

\* os.mkdir(full_path) as Path.mkdir(exist_ok=True) would treat it: an
\* existing directory is not an error
create_folder_mkdir_exist_ok(F, full_path) == PathMkdir(F, full_path, FALSE, TRUE)

\* os.mkdir(full_path) as Path.mkdir(parents=True, exist_ok=False) calls it,
\* first and, after making the parents, again
create_folder_mkdir(F, full_path) == PathMkdir(F, full_path, FALSE, FALSE)

\* the caller's call begins; when it finds the path free while another
\* caller's create_folder of the same path is under way, both are marked
CreateFolderChecks(c) ==
    \E p \in { <<"a">>, <<"b">>, <<"a", "/", "b">> } :
        LET mine == Started(c, Call("create_folder", p, <<>>, <<>>, FALSE),
                            create_folder_checks(FS, p))
        IN  /\ running[c].pc = "none"
            /\ running' = [d \in Callers |->
                   IF d = c THEN mine
                   ELSE IF mine.raced /\ running[d].call = mine.call
                        THEN [running[d] EXCEPT !.raced = TRUE]
                   ELSE running[d]]
            /\ UNCHANGED <<dirs, files, last>>

CreateFolderMkdirs(c) ==
    LET m == create_folder_mkdir(FS, _get_full_path(running[c].call.path)) IN
    /\ running[c].pc = "checked"
    /\ running[c].call.op = "create_folder"
    /\ WithinBounds(m.fs)
    /\ dirs' = m.fs.dirs
    /\ files' = m.fs.files
    /\ running' = [running EXCEPT
           ![c].pc = IF m.err = "FileNotFoundError" THEN "parents" ELSE "done",
           ![c].res = IF m.err = "FileNotFoundError" THEN "ok" ELSE m.err]
    /\ UNCHANGED last

CreateFolderMakesParents(c) ==
    LET up == PathMkdir(FS, Parent(_get_full_path(running[c].call.path)), TRUE, TRUE) IN
    /\ running[c].pc = "parents"
    /\ WithinBounds(up.fs)
    /\ dirs' = up.fs.dirs
    /\ files' = up.fs.files
    /\ running' = [running EXCEPT
           ![c].pc = IF up.err = "ok" THEN "retry" ELSE "done",
           ![c].res = up.err]
    /\ UNCHANGED last

CreateFolderRetries(c) ==
    LET m == create_folder_mkdir(FS, _get_full_path(running[c].call.path)) IN
    /\ running[c].pc = "retry"
    /\ WithinBounds(m.fs)
    /\ dirs' = m.fs.dirs
    /\ files' = m.fs.files
    /\ running' = [running EXCEPT ![c].pc = "done", ![c].res = m.err]
    /\ UNCHANGED last

\* get_folder_tree up to its call of _build_folder_tree(full_path)
get_folder_tree_checks(F, folder_path) ==
    LET full_path == _get_full_path(folder_path) IN
    IF ~validate_path(folder_path) THEN "ValueError"
    ELSE IF ~Exists(F, full_path) THEN "FileNotFoundError"
    ELSE IF ~IsDir(F, full_path) THEN "ValueError"
    ELSE "ok"

\* the calls of _build_folder_tree still to come once the first of pending
\* has listed its folder and the folder listed itself among its subfolders
_build_folder_tree_calls_with_self(F, pending) ==
    <<Head(pending)>> \o Tail(pending)

\* the calls of _build_folder_tree still to come once the first of pending
\* has listed its folder: those for its subfolders, sorted, then the rest
_build_folder_tree_calls(F, pending) ==
    SelectSeq(SortedPaths(Iterdir(F, Head(pending))),
              LAMBDA subfolder : Subfolder(F, subfolder))
    \o Tail(pending)

GetFolderTreeChecks(c) ==
    \E p \in { <<>>, <<"a">> } :
        LET chk == get_folder_tree_checks(FS, p) IN
        /\ running[c].pc = "none"
        /\ running' = [running EXCEPT ![c] =
               [call   |-> Call("get_folder_tree", p, <<>>, <<>>, FALSE),
                pc     |-> IF chk = "ok" THEN "listing" ELSE "done",
                res    |-> chk,
                raced  |-> FALSE,
                todo   |-> IF chk = "ok" THEN <<_get_full_path(p)>> ELSE <<>>,
                visits |-> <<>>,
                began  |-> IF chk = "ok" THEN dirs ELSE {}]]
        /\ UNCHANGED <<dirs, files, last>>

BuildFolderTree(c) ==
    LET pending == _build_folder_tree_calls(FS, running[c].todo) IN
    /\ running[c].pc = "listing"
    /\ running' = [running EXCEPT
           ![c].visits = Append(@, Head(running[c].todo)),
           ![c].todo = pending,
           ![c].pc = IF pending = <<>> THEN "done" ELSE "listing"]
    /\ UNCHANGED <<dirs, files, last>>

CallerLeaves(c) ==
    /\ running[c].pc = "done"
    /\ running' = [running EXCEPT ![c] = NotRunning]
    /\ UNCHANGED <<dirs, files, last>>

\* what caller c does once its call has begun
Proceeds(c) ==
    \/ CreateFolderMkdirs(c)
    \/ CreateFolderMakesParents(c)
    \/ CreateFolderRetries(c)
    \/ BuildFolderTree(c)

NextFolders ==
    \E c \in Callers :
        \/ CreateFolderChecks(c)
        \/ GetFolderTreeChecks(c)
        \/ Proceeds(c)
        \/ CallerLeaves(c)

SpecFolders == Init /\ [][NextFolders]_vars

\* every thread that handles a request keeps being scheduled, and no call
\* waits for a lock
FairSpecFolders == SpecFolders /\ \A c \in Callers : WF_vars(Proceeds(c))

(***************************************************************************)
(* TraceLogger (backend/utils/trace.py).  The log is the file at          *)
(* trace_path, in a directory that write makes when it is missing.  An    *)
(* event is one character, and so is the data: "d" for a dictionary of    *)
(* JSON values, "s" for one holding a value json cannot encode (a set,    *)
(* bytes, an object).                                                      *)
(***************************************************************************)
trace_path == << <<"l">>, <<"t">> >>

\* json.dumps(payload): the line, or the TypeError it raises
json_dumps(event, data) ==
    IF data = "s" THEN [err |-> "TypeError", line |-> <<>>]
    ELSE [err |-> "ok", line |-> <<event, data>>]

\* write(event, data) when the filesystem fails at the step failure ("none",
\* "mkdir", "open" or "write") and, for "write", after written characters
\* of the line have reached the file
TraceLogger_write(F, event, data, failure, written) ==
    LET dumped == json_dumps(event, data)
        log == IF trace_path \in DOMAIN F.files THEN F.files[trace_path] ELSE <<>>
        made == PathMkdir(F, Parent(trace_path), TRUE, TRUE)
        Appended(text) ==
            [dirs |-> made.fs.dirs, files |-> SetFile(made.fs.files, trace_path, log \o text)]
    IN  IF dumped.err # "ok" THEN Out(F, dumped.err, <<>>, {})
        ELSE IF failure = "mkdir" \/ made.err # "ok" THEN Out(F, "ok", <<>>, {})
        ELSE IF failure = "open" THEN Out(made.fs, "ok", <<>>, made.touched)
        ELSE IF failure = "write"
             THEN Out(Appended(SubSeq(dumped.line, 1, written)), "ok", <<>>,
                      made.touched \cup {trace_path})
        ELSE Out(Appended(dumped.line \o <<"\n">>), "ok", <<>>,
                 made.touched \cup {trace_path})

TraceWrite ==
    \E event \in {"e", "f"}, data \in {"d", "s"},
       failure \in {"none", "mkdir", "open", "write"}, written \in 0..2 :
        LET out == TraceLogger_write(FS, event, data, failure, written) IN
        /\ last.call = Idle
        /\ failure # "write" => written = 0
        /\ trace_path \in DOMAIN out.fs.files =>
               Len(out.fs.files[trace_path]) <= 2 * MaxLines
        /\ UNCHANGED running
        /\ dirs' = out.fs.dirs
        /\ files' = out.fs.files
        /\ last' = Done(Call("TraceLogger.write", <<>>, <<event, data>>, <<>>,
                             failure # "none"), out)

NextTrace ==
    \/ Return
    \/ TraceWrite

SpecTrace == Init /\ [][NextTrace]_vars

(***************************************************************************)
(* Properties.                                                             *)
(***************************************************************************)
\* a step that runs the operation op
Acts(op) == last.call = Idle /\ last'.call.op = op

Unchanged == dirs' = dirs /\ files' = files

\* s has a ".." segment or starts with "/"
HasDotDotSegment(s) == \E i \in 1..Len(Split(s)) : Split(s)[i] = DOTDOT

BadPath(s) == HasDotDotSegment(s) \/ StartsWith(s, SLASH)

MoveOps == {"move_note", "move_folder", "NoteService.move_note"}

\* C1: every location an operation probes, reads, creates, writes, renames,
\* moves or removes is the notes directory or lies below it, and nothing
\* outside the notes directory is ever created, changed or removed.
C1_SandboxContainment ==
    /\ \A p \in last.touched : InRoot(p)
    /\ \A p \in Entries(FS) : InRoot(p) \/ p \in {<<>>, OutsideFile}
    /\ IsDir(FS, <<>>)
    /\ IsFile(FS, OutsideFile) /\ files[OutsideFile] = <<"k">>

\* C1 witness: a write aimed at the file beside the notes directory was
\* made and rejected
C1_Witness ==
    /\ last.call.op = "write_note"
    /\ last.call.path = <<".", ".", "/", "s">>
    /\ last.res = "ValueError"

\* C2: every operation given a path with a ".." segment or a leading "/" as
\* its source, folder or move target fails with ValueError (InvalidPath) and
\* leaves the filesystem unchanged.  (get_note is left out: it fails before
\* it looks at its argument.)
C2_BadPathIsInvalidPath ==
    [][ ( /\ last.call = Idle
          /\ last'.call.op \notin {"idle", "get_note"}
          /\ \/ BadPath(last'.call.path)
             \/ last'.call.op \in MoveOps /\ BadPath(last'.call.arg) )
        => (last'.res = "ValueError" /\ Unchanged) ]_vars

\* C3: the notes directory exists in every reachable state.
C3_RootAlwaysExists == IsDir(FS, notes_dir)

\* move_note(p, t) finds note p, folder t and the note's file name taken in t
MoveNoteCollides(F, p, t) ==
    LET src == _get_full_path(WithTxt(p))
        tgt == _get_full_path(t)
    IN  /\ validate_path(WithTxt(p)) /\ IsFile(F, src)
        /\ validate_path(t) /\ IsDir(F, tgt)
        /\ Exists(F, Append(tgt, Name(src)))

\* move_folder(p, t) finds folder p, folder t and the folder's name taken in t
MoveFolderCollides(F, p, t) ==
    LET src == _get_full_path(p)
        tgt == _get_full_path(t)
    IN  /\ p # <<>> /\ validate_path(p) /\ IsDir(F, src)
        /\ validate_path(t) /\ IsDir(F, tgt)
        /\ Exists(F, Append(tgt, Name(src)))

\* FolderService.create_folder(parent, name) finds the new folder's path taken
CreateFolderCollides(F, parent, name0) ==
    LET name == _sanitize_filename(name0)
        folder_path == IF parent # <<>> THEN parent \o SLASH \o name ELSE name
    IN  /\ name # <<>> /\ validate_path(folder_path)
        /\ Exists(F, _get_full_path(folder_path))

\* C4 as claimed: a note move, folder move or folder create whose
\* destination name exists in the destination directory fails with
\* FileExistsError (AlreadyExists) and changes nothing.
C4_CollisionIsAlreadyExists ==
    [][ ( \/ Acts("move_note")
             /\ MoveNoteCollides(FS, last'.call.path, last'.call.arg)
          \/ Acts("move_folder")
             /\ MoveFolderCollides(FS, last'.call.path, last'.call.arg)
          \/ Acts("create_folder")
             /\ CreateFolderCollides(FS, last'.call.path, last'.call.arg) )
        => (last'.res = "FileExistsError" /\ Unchanged) ]_vars

\* C4 amended: as C4, except that a folder move whose target is the folder
\* itself is refused with ValueError (InvalidPath) before the collision is
\* looked at; in every case nothing is overwritten or changed.
C4_CollisionFailsUnchanged ==
    [][ ( \/ Acts("move_note")
             /\ MoveNoteCollides(FS, last'.call.path, last'.call.arg)
          \/ Acts("move_folder")
             /\ MoveFolderCollides(FS, last'.call.path, last'.call.arg)
          \/ Acts("create_folder")
             /\ CreateFolderCollides(FS, last'.call.path, last'.call.arg) )
        => /\ Unchanged
           /\ last'.res =
                IF /\ last'.call.op = "move_folder"
                   /\ _get_full_path(last'.call.arg) = _get_full_path(last'.call.path)
                THEN "ValueError" ELSE "FileExistsError" ]_vars

\* C4 witness: a note was moved to another folder that holds a note of its
\* name, and the move reported FileExistsError
C4_Witness ==
    /\ last.call.op = "move_note"
    /\ last.res = "FileExistsError"
    /\ MoveNoteCollides(FS, last.call.path, last.call.arg)
    /\ _get_full_path(last.call.arg) # Parent(_get_full_path(WithTxt(last.call.path)))

\* rename_note(p, n) finds note p and another entry named n.txt beside it
RenameNoteCollides(F, p, n0) ==
    LET src == _get_full_path(WithTxt(p))
        dst == Append(Parent(src), _sanitize_filename(n0) \o TXT)
    IN  /\ _sanitize_filename(n0) # <<>>
        /\ validate_path(WithTxt(p)) /\ Exists(F, src)
        /\ dst # src /\ Exists(F, dst)

\* rename_folder(p, n) finds folder p and another entry named n beside it
RenameFolderCollides(F, p, n0) ==
    LET src == _get_full_path(p)
        dst == Append(Parent(src), _sanitize_filename(n0))
    IN  /\ p # <<>> /\ _sanitize_filename(n0) # <<>>
        /\ validate_path(p) /\ IsDir(F, src) /\ src # notes_dir
        /\ dst # src /\ Exists(F, dst)

\* C5: renaming a note or a folder to a name a sibling already has fails
\* with FileExistsError (AlreadyExists); the sibling and the source stay as
\* they were.
C5_RenameOntoSiblingFails ==
    [][ ( \/ Acts("rename_note")
             /\ RenameNoteCollides(FS, last'.call.path, last'.call.arg)
          \/ Acts("rename_folder")
             /\ RenameFolderCollides(FS, last'.call.path, last'.call.arg) )
        => (last'.res = "FileExistsError" /\ Unchanged) ]_vars

MD == <<".", "m", "d">>

\* folder f holds a note named n of type txt (n.txt) or of type md (n.md,
\* which write_note stores as n.md.txt)
NoteNamed(F, f, n) ==
    \E e \in {TXT, MD, MD \o TXT} :
        IsFile(F, Append(_get_full_path(f), n \o e))

\* C6: create_note in a folder that holds a note of the same sanitized name,
\* of either type, fails with FileExistsError (AlreadyExists) for both types
\* and changes nothing.
C6_CreateCollidesPerName ==
    [][ ( /\ Acts("create_note")
          /\ validate_path(last'.call.path)
          /\ _sanitize_filename(last'.call.arg) # <<>>
          /\ NoteNamed(FS, last'.call.path, _sanitize_filename(last'.call.arg)) )
        => (last'.res = "FileExistsError" /\ Unchanged) ]_vars

\* move_folder(p, t) finds folder p and folder t, t equal to p or below it
MoveIntoOwnSubtree(F, p, t) ==
    LET src == _get_full_path(p)
        tgt == _get_full_path(t)
    IN  /\ p # <<>> /\ validate_path(p) /\ IsDir(F, src)
        /\ validate_path(t) /\ IsDir(F, tgt)
        /\ IsRelativeTo(tgt, src)

\* C7: moving a folder other than the root to a target that is a proper
\* descendant of it fails with ValueError (InvalidPath).
C7_MoveIntoDescendantIsInvalidPath ==
    [][ ( /\ Acts("move_folder")
          /\ MoveIntoOwnSubtree(FS, last'.call.path, last'.call.arg)
          /\ _get_full_path(last'.call.path) # notes_dir
          /\ _get_full_path(last'.call.arg) # _get_full_path(last'.call.path) )
        => last'.res = "ValueError" ]_vars

\* every entry but "/" lies in a directory
IsTree(F) == \A p \in Entries(F) : p = <<>> \/ IsDir(F, Parent(p))

\* C8: moving a folder to itself or to a folder below it reports an error
\* and changes nothing, and the entries always form a tree: every entry lies
\* in a directory that exists.
C8_MoveIntoOwnSubtreeChangesNothing ==
    /\ [] IsTree(FS)
    /\ [][ ( /\ Acts("move_folder")
             /\ MoveIntoOwnSubtree(FS, last'.call.path, last'.call.arg) )
           => (last'.res # "ok" /\ Unchanged) ]_vars

\* C8 witness: folder a was moved to its child a/b and the call failed
C8_Witness ==
    /\ last.call.op = "move_folder"
    /\ last.call.path = <<"a">>
    /\ last.call.arg = <<"a", "/", "b">>
    /\ IsDir(FS, Append(notes_dir, <<"a">>))
    /\ IsDir(FS, notes_dir \o << <<"a">>, <<"b">> >>)
    /\ last.res # "ok"

\* C9: a call that reports a failure leaves the filesystem as it was.
C9_FailureChangesNothing ==
    [][ (last.call = Idle /\ last'.call # Idle /\ last'.res # "ok")
        => Unchanged ]_vars

\* the note path a create_note call addresses
CreatedPath(call) ==
    IF call.path # <<>>
    THEN call.path \o SLASH \o _sanitize_filename(call.arg)
    ELSE _sanitize_filename(call.arg)

\* exceptions the store documents for a path, name or state it refuses
Refusals ==
    {"ValueError", "FileNotFoundError", "FileExistsError",
     "NotADirectoryError", "IsADirectoryError"}

\* C10: after write_note(p, c) has succeeded for a note path p, read_note(p)
\* returns c; after
\* create_note and update_note, unless they refuse the call, get_note
\* returns the content they were given.
C10_WriteReadRoundTrip ==
    /\ (last.call.op = "write_note" /\ last.call.path # <<>> /\ last.res = "ok")
       => /\ read_note(FS, last.call.path).res = "ok"
          /\ read_note(FS, last.call.path).ret = last.call.content
    /\ (last.call.op = "create_note" /\ last.res \notin Refusals)
       => /\ last.res = "ok"
          /\ get_note(FS, CreatedPath(last.call)).res = "ok"
          /\ get_note(FS, CreatedPath(last.call)).ret = last.call.content
    /\ (last.call.op = "update_note" /\ last.res \notin Refusals)
       => /\ last.res = "ok"
          /\ get_note(FS, last.call.path).res = "ok"
          /\ get_note(FS, last.call.path).ret = last.call.content

\* note_path names a note: an existing regular file at note_path + ".txt"
IsNote(F, note_path) ==
    /\ validate_path(WithTxt(note_path))
    /\ IsFile(F, _get_full_path(WithTxt(note_path)))

\* C11: update_note on a path that names no note fails with
\* FileNotFoundError (NotFound) and changes nothing; no update_note call,
\* whatever it reports, adds a file or a directory.
C11_UpdateMissingIsNotFound ==
    [][ Acts("update_note")
        => /\ DOMAIN files' \subseteq DOMAIN files
           /\ dirs' = dirs
           /\ ~IsNote(FS, last'.call.path)
              => (last'.res = "FileNotFoundError" /\ Unchanged) ]_vars

\* C11 witness: update_note("a", ..) was refused while no note a exists
C11_Witness ==
    /\ last.call.op = "update_note"
    /\ last.call.path = <<"a">>
    /\ last.res = "FileNotFoundError"
    /\ ~IsNote(FS, <<"a">>)

\* folder_path is a non-empty path that names an existing folder
IsFolder(F, folder_path) ==
    /\ folder_path # <<>>
    /\ validate_path(folder_path)
    /\ IsDir(F, _get_full_path(folder_path))

\* C12: delete_folder(folder_path, recursive=False), for a non-empty
\* folder_path naming a folder that holds at least one entry, fails with
\* OSError ("Folder not empty", the NotEmpty error) and changes nothing.
C12_DeleteNonEmptyIsNotEmpty ==
    [][ ( /\ Acts("delete_folder")
          /\ ~last'.call.flag
          /\ IsFolder(FS, last'.call.path)
          /\ HasChildren(FS, _get_full_path(last'.call.path)) )
        => (last'.res = "OSError" /\ Unchanged) ]_vars

\* C12 witness: folder a, holding an entry, was deleted without recursive
\* and the call reported OSError
C12_Witness ==
    /\ last.call.op = "delete_folder"
    /\ last.call.path = <<"a">>
    /\ ~last.call.flag
    /\ last.res = "OSError"
    /\ HasChildren(FS, Append(notes_dir, <<"a">>))

\* C13: delete_folder(folder_path, recursive=True) on an existing folder
\* other than the root succeeds; afterwards no entry at or under the folder
\* exists, and every entry outside it exists as before with the same content.
C13_RecursiveDeleteRemovesSubtree ==
    [][ ( /\ Acts("delete_folder")
          /\ last'.call.flag
          /\ IsFolder(FS, last'.call.path)
          /\ _get_full_path(last'.call.path) # notes_dir )
        => LET gone == {q \in Entries(FS) :
                           IsRelativeTo(q, _get_full_path(last'.call.path))}
           IN  /\ last'.res = "ok"
               /\ dirs' = dirs \ gone
               /\ DOMAIN files' = (DOMAIN files) \ gone
               /\ \A q \in DOMAIN files' : files'[q] = files[q] ]_vars

\* C13 witness: folder a, holding folder a/b with an entry in it, was
\* deleted with recursive set and nothing of it is left
C13_Witness ==
    /\ last.call.op = "delete_folder"
    /\ last.call.path = <<"a">>
    /\ last.call.flag
    /\ last.res = "ok"
    /\ \E q \in last.touched : Len(q) = Len(notes_dir) + 3
    /\ \A q \in Entries(FS) : ~IsRelativeTo(q, Append(notes_dir, <<"a">>))

\* a name that neither begins nor ends with "." or whitespace and holds
\* none of the characters _sanitize_filename replaces
CleanName(name) ==
    /\ name # <<>>
    /\ Head(name) \notin Whitespace \cup {"."}
    /\ name[Len(name)] \notin Whitespace \cup {"."}
    /\ \A i \in 1..Len(name) : name[i] \notin DangerousChars

\* C14: for every input, the name _sanitize_filename returns is empty (and
\* then refused by create and rename) or neither begins nor ends with "."
\* or whitespace and holds none of / \ : * ? " < > | NUL.
C14_SanitizedNamesAreClean ==
    last.call.op = "_sanitize_filename"
        => (last.ret = <<>> \/ CleanName(last.ret))

\* the note dictionaries of a folder tree, at every depth
RECURSIVE TreeNotes(_)
TreeNotes(tree) ==
    tree.notes \cup UNION {TreeNotes(tree.children[i]) : i \in 1..Len(tree.children)}

\* the note dictionaries the last call returned
ReturnedNotes ==
    IF last.res # "ok" THEN {}
    ELSE IF last.call.op \in {"list_notes", "list_all_notes"} THEN last.ret
    ELSE IF last.call.op = "get_folder_tree" THEN TreeNotes(last.ret)
    ELSE IF last.call.op \in {"get_note", "create_note", "update_note",
                              "NoteService.rename_note", "NoteService.move_note"}
         THEN {last.ret}
    ELSE {}

CarriesExtension(s) == EndsWith(s, TXT) \/ EndsWith(s, MD)

\* C15: every note dictionary an operation returns has a path and a name
\* that do not end in ".txt" or ".md", and a file_type of txt or md.
C15_NotesCarryNoExtension ==
    \A note \in ReturnedNotes :
        /\ ~CarriesExtension(note.path)
        /\ ~CarriesExtension(note.name)
        /\ note.file_type \in FileTypes

\* two requests to create the same note: same folder, name and type
SameCreate(r1, r2) ==
    /\ r1.call.op = "create_note" /\ r2.call.op = "create_note"
    /\ r1.call.path = r2.call.path
    /\ r1.call.arg = r2.call.arg
    /\ r1.call.flag = r2.call.flag

\* C16: of two create_note calls for the same note that ran at the same
\* time, at least one was refused with FileExistsError (AlreadyExists), so
\* at most one of them wrote the note.
C16_ConcurrentCreateOneWins ==
    \A c, d \in Callers :
        ( /\ c # d
          /\ running[c].pc = "done" /\ running[d].pc = "done"
          /\ SameCreate(running[c], running[d])
          /\ running[c].raced \/ running[d].raced )
        => \/ running[c].res = "FileExistsError"
           \/ running[d].res = "FileExistsError"

\* C17: when an update, delete or rename of a note takes its filesystem
\* step after the note has gone from its path, the call reports
\* FileNotFoundError (NotFound) and the filesystem stays as it is: the note
\* is not made again at the old path.
C17_RaceLoserObservesNotFound ==
    [][ \A c \in Callers :
          ( /\ running[c].pc = "checked" /\ running'[c].pc = "done"
            /\ running[c].call.op \in {"update_note", "delete_note", "rename_note"}
            /\ ~IsNote(FS, running[c].call.path) )
          => (running'[c].res = "FileNotFoundError" /\ Unchanged) ]_vars

ReadOps == {"get_folder_tree", "list_notes", "list_all_notes", "read_note"}

\* C18: get_folder_tree, list_notes, list_all_notes and read_note, for
\* every argument and whether they succeed or fail, leave the directories,
\* the files and their contents as they were.
C18_ReadsChangeNothing ==
    [][ (last.call = Idle /\ last'.call.op \in ReadOps) => Unchanged ]_vars

\* C18 witness: get_folder_tree("") returned a tree with a subfolder and a
\* note in a store that holds both
C18_Witness ==
    /\ last.call.op = "get_folder_tree"
    /\ last.call.path = <<>>
    /\ last.res = "ok"
    /\ Len(last.ret.children) >= 1
    /\ last.ret.notes # {}
    /\ IsDir(FS, Append(notes_dir, <<"a">>))

\* the tree describes the directory at path: its children are the
\* subdirectories not named with a leading dot, each once, in ascending
\* order of name and each describing its own directory; its notes are the
\* files with extension .txt or .md directly in the directory
RECURSIVE TreeMatches(_, _, _)
TreeMatches(F, tree, path) ==
    LET shown == {d \in F.dirs : d # <<>> /\ Parent(d) = path /\ Head(Name(d)) # "."}
        notes == {p \in DOMAIN F.files :
                     /\ p # <<>> /\ Parent(p) = path
                     /\ EndsWith(Name(p), TXT) \/ EndsWith(Name(p), MD)}
        n     == Len(tree.children)
    IN  /\ n = Cardinality(shown)
        /\ {tree.children[i].name : i \in 1..n} = {Name(d) : d \in shown}
        /\ \A i, j \in 1..n :
               i < j => StrLess(tree.children[i].name, tree.children[j].name)
        /\ \A i \in 1..n :
               TreeMatches(F, tree.children[i], Append(path, tree.children[i].name))
        /\ Cardinality(tree.notes) = Cardinality(notes)
        /\ {note.path : note \in tree.notes}
               = {JoinSlash(SubSeq(p, Len(notes_dir) + 1, Len(p))) : p \in notes}

\* C19: get_folder_tree of an existing folder returns the tree that
\* describes it as TreeMatches says; of a valid path at which nothing
\* exists it raises FileNotFoundError (NotFound).
C19_TreeMatchesDirectory ==
    (last.call.op = "get_folder_tree" /\ validate_path(last.call.path))
        => /\ IsDir(FS, _get_full_path(last.call.path))
              => /\ last.res = "ok"
                 /\ TreeMatches(FS, last.ret, _get_full_path(last.call.path))
           /\ ~Exists(FS, _get_full_path(last.call.path))
              => last.res = "FileNotFoundError"

\* C19 witness: the root holds a hidden folder beside two others, and
\* get_folder_tree("") returned a tree with two children
C19_Witness ==
    /\ last.call.op = "get_folder_tree"
    /\ last.call.path = <<>>
    /\ last.res = "ok"
    /\ IsDir(FS, Append(notes_dir, <<".", "h">>))
    /\ Len(last.ret.children) = 2

\* every folder of the tree below its top is named by the last segment of
\* its path
RECURSIVE NamedByPath(_)
NamedByPath(tree) ==
    \A i \in 1..Len(tree.children) :
        /\ tree.children[i].name = Split(tree.children[i].path)[Len(Split(tree.children[i].path))]
        /\ NamedByPath(tree.children[i])

\* C20: get_folder_tree("") returns, in every reachable state, a folder
\* named "root" with path ""; its children and notes are empty when the
\* root holds nothing, and every folder below it is named by the last
\* segment of its path.
C20_RootTreeIsNamedRoot ==
    (last.call.op = "get_folder_tree" /\ last.call.path = <<>>)
        => /\ last.res = "ok"
           /\ last.ret.name = <<"r", "o", "o", "t">>
           /\ last.ret.path = <<>>
           /\ ~HasChildren(FS, notes_dir)
              => (last.ret.children = <<>> /\ last.ret.notes = {})
           /\ NamedByPath(last.ret)

\* where move_note puts the note at note_path when it succeeds
MovedTo(note_path, target_folder) ==
    Append(_get_full_path(target_folder), Name(_get_full_path(WithTxt(note_path))))

\* C21: after a successful move_note(note_path, target_folder) the note is at
\* target_folder/<file name> with the content it had, no note is left at
\* the old path, and the path move_note returned names the moved note (it
\* passes path resolution and resolves to the note's new location), for
\* every folder and note name, those holding the text ".txt" included.
C21_MoveResultIdentifiesNote ==
    [][(Acts("move_note") /\ last'.res = "ok") =>
          LET old == _get_full_path(WithTxt(last'.call.path))
              new == MovedTo(last'.call.path, last'.call.arg)
          IN  /\ new \in DOMAIN files'
              /\ files'[new] = files[old]
              /\ old \notin DOMAIN files'
              /\ validate_path(WithTxt(last'.ret))
              /\ _get_full_path(WithTxt(last'.ret)) = new]_vars

\* the location a successful rename_folder or move_folder gives the folder
FolderDestination(call) ==
    LET old == _get_full_path(call.path) IN
    IF call.op = "rename_folder"
    THEN Resolve(Append(Parent(old), _sanitize_filename(call.arg)))
    ELSE Append(_get_full_path(call.arg), Name(old))

\* the location under new of the entry e under old
Rebased(e, old, new) == new \o SubSeq(e, Len(old) + 1, Len(e))

\* C22: a successful rename_folder or move_folder relocates the whole
\* subtree and nothing else: every folder and note under the old path is
\* afterwards under the new path at the same relative sub-path with the
\* same content, nothing is left at the old path, and every entry outside
\* the old and the new path is as it was.
C22_FolderRelocatesSubtree ==
    [][((Acts("rename_folder") \/ Acts("move_folder")) /\ last'.res = "ok") =>
          LET old == _get_full_path(last'.call.path)
              new == FolderDestination(last'.call)
          IN  /\ \A e \in dirs :
                    IsRelativeTo(e, old) => Rebased(e, old, new) \in dirs'
              /\ \A e \in DOMAIN files :
                    IsRelativeTo(e, old) =>
                        /\ Rebased(e, old, new) \in DOMAIN files'
                        /\ files'[Rebased(e, old, new)] = files[e]
              /\ \A e \in dirs' \cup DOMAIN files' : ~IsRelativeTo(e, old)
              /\ \A e \in (dirs \cup dirs') :
                    (~IsRelativeTo(e, old) /\ ~IsRelativeTo(e, new)) =>
                        (e \in dirs <=> e \in dirs')
              /\ \A e \in (DOMAIN files \cup DOMAIN files') :
                    (~IsRelativeTo(e, old) /\ ~IsRelativeTo(e, new)) =>
                        /\ e \in DOMAIN files <=> e \in DOMAIN files'
                        /\ e \in DOMAIN files => files'[e] = files[e]]_vars

\* C22 as the code has it: the same, except that a rename to the name the
\* folder already has succeeds and changes nothing, so that the subtree is
\* then still at the old path, which is the new path too.
C22_SubtreeRelocatedUnlessSameName ==
    [][((Acts("rename_folder") \/ Acts("move_folder")) /\ last'.res = "ok") =>
          LET old == _get_full_path(last'.call.path)
              new == FolderDestination(last'.call)
          IN  /\ \A e \in dirs :
                    IsRelativeTo(e, old) => Rebased(e, old, new) \in dirs'
              /\ \A e \in DOMAIN files :
                    IsRelativeTo(e, old) =>
                        /\ Rebased(e, old, new) \in DOMAIN files'
                        /\ files'[Rebased(e, old, new)] = files[e]
              /\ new # old => \A e \in dirs' \cup DOMAIN files' : ~IsRelativeTo(e, old)
              /\ \A e \in (dirs \cup dirs') :
                    (~IsRelativeTo(e, old) /\ ~IsRelativeTo(e, new)) =>
                        (e \in dirs <=> e \in dirs')
              /\ \A e \in (DOMAIN files \cup DOMAIN files') :
                    (~IsRelativeTo(e, old) /\ ~IsRelativeTo(e, new)) =>
                        /\ e \in DOMAIN files <=> e \in DOMAIN files'
                        /\ e \in DOMAIN files => files'[e] = files[e]]_vars

\* a folder that holds something has been renamed or moved to another place
C22_Witness ==
    /\ last.call.op \in {"rename_folder", "move_folder"}
    /\ last.res = "ok"
    /\ FolderDestination(last.call) # _get_full_path(last.call.path)
    /\ \E e \in DOMAIN files :
           /\ e # FolderDestination(last.call)
           /\ IsRelativeTo(e, FolderDestination(last.call))

\* what the call does with its destination, in order
DestinationSteps(F, call) ==
    CASE call.op = "rename_note" -> rename_note_steps(F, call.path, call.arg)
      [] call.op = "move_note" -> move_note_steps(F, call.path, call.arg)
      [] call.op = "rename_folder" -> rename_folder_steps(F, call.path, call.arg)
      [] call.op = "move_folder" -> move_folder_steps(F, call.path, call.arg)
      [] OTHER -> <<>>

\* C23: in rename and move, of notes and of folders, the containment check
\* of the computed destination comes before anything else is done with the
\* destination: before the existence probe that detects a collision and
\* before the rename or move itself.
C23_ContainmentCheckedFirst ==
    [][(\E op \in {"rename_note", "move_note", "rename_folder", "move_folder"} :
            Acts(op)) =>
          LET steps == DestinationSteps(FS, last'.call) IN
          \A i \in DOMAIN steps :
              steps[i] # "is_relative_to" =>
                  \E j \in 1..(i - 1) : steps[j] = "is_relative_to"]_vars

\* the operations that take the path of a note
NoteOps ==
    {"read_note", "write_note", "delete_note", "rename_note", "move_note",
     "update_note", "NoteService.rename_note", "NoteService.move_note"}

\* C24: every note operation given a note path that path resolution rejects
\* fails with ValueError (InvalidPath), never with FileNotFoundError; this
\* holds for update_note with a traversal path in particular.
C24_RejectedNotePathIsInvalidPath ==
    [][\A op \in NoteOps :
           (Acts(op) /\ ~validate_path(WithTxt(last'.call.path))) =>
               last'.res = "ValueError"]_vars

\* two create_folder calls for the same path that both found the path free
\* and have both ended
RacedCreateFolder(c, d) ==
    /\ c # d
    /\ running[c].pc = "done" /\ running[d].pc = "done"
    /\ running[c].call.op = "create_folder" /\ running[d].call.op = "create_folder"
    /\ running[c].call.path = running[d].call.path
    /\ running[c].raced /\ running[d].raced

\* C25: of two create_folder calls for the same path that ran at the same
\* time, each finding the path free, exactly one succeeds and the other fails with FileExistsError
\* (AlreadyExists), in every interleaving of their steps.
C25_ConcurrentCreateFolderOneWins ==
    \A c, d \in Callers :
        RacedCreateFolder(c, d) =>
            \/ running[c].res = "ok" /\ running[d].res = "FileExistsError"
            \/ running[d].res = "ok" /\ running[c].res = "FileExistsError"

\* both callers passed the exists() test for a/b while neither a nor a/b
\* was there, and both calls have ended
C25_Witness ==
    \E c, d \in Callers :
        /\ RacedCreateFolder(c, d)
        /\ running[c].call.path = <<"a", "/", "b">>
        /\ running[d].raced
        /\ running[d].res = "FileExistsError"

\* the relative path a successful create, rename or move handed back
ReturnedPath ==
    CASE last.call.op = "FolderService.create_folder" -> last.ret
      [] last.call.op = "FolderService.rename_folder" -> last.ret.new_path
      [] last.call.op = "rename_note" -> WithTxt(last.ret)
      [] last.call.op = "move_note" -> WithTxt(last.ret)

\* C26: the relative path returned by a successful create, rename or move
\* passes path resolution, so the entry can be addressed again; rename
\* accepts no name that create refuses.
C26_ReturnedPathsAreAddressable ==
    ( /\ last.res = "ok"
      /\ last.call.op \in {"FolderService.create_folder", "FolderService.rename_folder",
                           "rename_note", "move_note"} )
    => validate_path(ReturnedPath)

\* the call moves the note at its path into the folder the note is in
NoteIntoOwnParent(F, call) ==
    /\ call.op = "move_note"
    /\ IsNote(F, call.path)
    /\ validate_path(call.arg)
    /\ _get_full_path(call.arg) = Parent(_get_full_path(WithTxt(call.path)))

\* the call moves the folder at its path into the folder it is in
FolderIntoOwnParent(F, call) ==
    /\ call.op = "move_folder"
    /\ IsFolder(F, call.path)
    /\ validate_path(call.arg)
    /\ _get_full_path(call.arg) = Parent(_get_full_path(call.path))

\* C27: move_note and move_folder into the folder that already holds the
\* entry fail with FileExistsError (AlreadyExists) and leave the filesystem
\* unchanged; and no move_note or move_folder succeeds leaving the
\* filesystem as it was.
C27_MoveIntoOwnParentIsAlreadyExists ==
    [][ /\ ( /\ last.call = Idle
             /\ \/ NoteIntoOwnParent(FS, last'.call)
                \/ FolderIntoOwnParent(FS, last'.call) )
           => (last'.res = "FileExistsError" /\ Unchanged)
        /\ ((Acts("move_note") \/ Acts("move_folder")) /\ last'.res = "ok")
           => ~Unchanged ]_vars

\* a note inside a folder, or a folder inside a folder, was moved into that
\* folder and the call was refused
C27_Witness ==
    /\ \/ NoteIntoOwnParent(FS, last.call)
       \/ FolderIntoOwnParent(FS, last.call)
    /\ last.call.arg = <<"a">>
    /\ last.res = "FileExistsError"

\* the last segment of a relative path
FinalSegment(path) == Split(path)[Len(Split(path))]

\* C28: the dictionary a successful FolderService.rename_folder returns is
\* consistent: its name is the final segment of its new_path, and the
\* directory is on disk at new_path, for every new_name, those that
\* _sanitize_filename alters included.
C28_RenameResultIsSelfConsistent ==
    (last.call.op = "FolderService.rename_folder" /\ last.res = "ok") =>
        /\ last.ret.name = FinalSegment(last.ret.new_path)
        /\ IsDir(FS, _get_full_path(last.ret.new_path))

\* the folders at and below path that the tree shows, D being the directories
RECURSIVE TreeFolders(_, _)
TreeFolders(D, path) ==
    {path} \cup UNION {TreeFolders(D, d) :
                          d \in {q \in D : /\ q # <<>>
                                           /\ Parent(q) = path
                                           /\ ~StartsWith(Name(q), <<".">>)}}

\* no folder has been listed twice by caller c's get_folder_tree, every
\* folder listed is one the tree shows, and when the call has ended every
\* folder that was at or below the requested path when it began is listed
ListedOnce(c) ==
    LET visits == running[c].visits
        full_path == _get_full_path(running[c].call.path)
    IN  /\ \A i, j \in DOMAIN visits : visits[i] = visits[j] => i = j
        /\ \A i \in DOMAIN visits : visits[i] \in TreeFolders(dirs, full_path)
        /\ ( /\ running[c].call.op = "get_folder_tree"
             /\ running[c].pc = "done"
             /\ running[c].res = "ok" )
           => \A d \in TreeFolders(running[c].began, full_path) :
                  \E i \in DOMAIN visits : visits[i] = d

\* C29: every call that has begun ends with a result or an error; the
\* recursion of get_folder_tree lists each folder under the requested path
\* exactly once and ends.
C29_EveryCallCompletes ==
    /\ [](\A c \in Callers : ListedOnce(c))
    /\ \A c \in Callers :
           (running[c].pc \notin {"none", "done"}) ~> (running[c].pc = "done")

\* a get_folder_tree of the root has ended after listing the root, a folder
\* in it and a folder in that one
C29_Witness ==
    \E c \in Callers :
        /\ running[c].call.op = "get_folder_tree"
        /\ running[c].pc = "done"
        /\ running[c].res = "ok"
        /\ Len(running[c].visits) >= 3
        /\ running[c].visits[1] = notes_dir
        /\ \E i \in DOMAIN running[c].visits : Len(running[c].visits[i]) = 3

\* the text of the trace log
TraceLog(f) == IF trace_path \in DOMAIN f THEN f[trace_path] ELSE <<>>

\* C30: TraceLogger.write raises nothing, whatever the event, the data and
\* the failure of the directory creation, the open or the write; and a call
\* leaves the log as it was or with its whole line added, never with a part
\* of the line.
C30_TraceWriteNeverRaises ==
    [][Acts("TraceLogger.write") =>
          /\ last'.res = "ok"
          /\ \/ TraceLog(files') = TraceLog(files)
             \/ TraceLog(files') = TraceLog(files) \o last'.call.arg \o <<"\n">>]_vars

====
